---- MODULE Spec2Model ----
(***************************************************************************)
(* A model of the plan executor of sec_llm (src/src/sec_llm/pipeline.py):  *)
(* ExecutionPlanExecutor.execute with its reference resolver, its argument *)
(* coercion for the data-fetch tool and the deterministic compute library  *)
(* (src/src/sec_llm/compute.py) it dispatches to.                          *)
(*                                                                         *)
(* Conventions.                                                            *)
(*  - A plan argument value is a Python str.  It is modelled by the list   *)
(*    of its colon-separated segments, i.e. by value.split(":"):           *)
(*    "AAPL" is <<"AAPL">>, "$step:1:revenue" is <<"$step","1","revenue">>,*)
(*    "$step:" is <<"$step","">>.                                          *)
(*  - A Python value is a record tagged by its type in field t.            *)
(*  - A float is modelled by an integer count of millionths (Micro), so    *)
(*    that round(x, 6) and round(x, 2) are exact operations on it.         *)
(*  - A raised exception is a record [exc, msg]; str(exc) is its msg, a    *)
(*    list of strings: the fixed text and the values formatted into it.    *)
(*                                                                         *)
(* The module also models the numeric claim verifier                       *)
(* (src/src/sec_llm/guardrails.py: extract_numbers, build_truth_set,       *)
(* verify_summary), the response builders of src/src/sec_llm/formatter.py  *)
(* and direct calls of the compute library.                                *)
(*  - The numbers of the verifier are exact decimals [m, e] standing for   *)
(*    m * 10^e, with m not divisible by 10 (zero is [0, 0]).               *)
(*  - A text is the list of its characters, except that a run of letters   *)
(*    is given as the scale word it starts with (in any letter case), if   *)
(*    any, and the rest of the run as one more element.                    *)
(*  - A call of a library function on its own is the record libcall; what  *)
(*    it returned or raised is the one element of libret.                  *)
(*                                                                         *)
(* Around the executor the module models                                   *)
(*  - two execute calls in progress at once (SpecConcurrent);              *)
(*  - the rate limiter of the chat endpoint, src/src/sec_llm/api/chat.py   *)
(*    (SpecRateLimit), with the clock `now` in seconds;                    *)
(*  - the data client with its TTL cache, src/src/sec_llm/sec/client.py    *)
(*    and sec/cache.py, under two requests of which either may be          *)
(*    cancelled while it awaits a fetch (SpecClient);                      *)
(*  - QueryPipeline.process with its collaborators (SpecPipeline, and      *)
(*    FairSpecPipeline for what process eventually does): `calls` lists    *)
(*    the collaborators in the order process invoked them, each with what  *)
(*    it was given and what it gave back.                                  *)
(***************************************************************************)
EXTENDS Integers, Sequences, FiniteSets, TLC

\* ------------------------------------------------------------------ bounds

\* Longest plan explored (ExecutionPlan allows up to 10 steps).
MaxSteps == 3

\* Longest plan explored when two runs are compared side by side.
MaxPairSteps == 3

\* Most numbers and words in a narration given to the verifier, longest
\* digit-free text given to it, and longest list of records a truth set is
\* built from.
MaxItems == 2

\* Longest plan of the first of two execute calls that run concurrently.
MaxConcurrentSteps == 2

\* Most requests the chat endpoint receives, most times the clock advances
\* between them, and the requests per minute a client is allowed
\* (settings.rate_limit_per_minute, 20 by default).
MaxRequests == 3
MaxTicks == 3
MaxPerMinute == 2

\* Most times the clock advances while the data client is in use.
MaxWaits == 2

\* The longest plan the planner of the pipeline returns.
MaxPipelineSteps == 2

\* ------------------------------------------------------- Python values

Micro == 1000000

PStr(parts) == [t |-> "str", parts |-> parts]
PInt(n) == [t |-> "int", n |-> n]
PFloat(n) == [t |-> "float", n |-> n]
PNone == [t |-> "NoneType"]

IsStr(v) == v.t = "str"
IsNumber(v) == v.t \in {"int", "float"}

\* The numeric value of an int or a float, in millionths.
MicroOf(v) == IF v.t = "int" THEN v.n * Micro ELSE v.n

Raise(exc, msg) == [ok |-> FALSE, exc |-> exc, msg |-> msg]
Return(v) == [ok |-> TRUE, val |-> v]

\* int(x) for the str literals the plans use; any other text is not an
\* integer literal and makes int() raise ValueError.
IntLiterals == {"0", "1", "2", "60", "100", "2023", "2024"}

IntOfLiteral(s) ==
    CASE s = "0" -> 0
      [] s = "1" -> 1
      [] s = "2" -> 2
      [] s = "60" -> 60
      [] s = "100" -> 100
      [] s = "2023" -> 2023
      [] s = "2024" -> 2024

\* Python's int(v).
PyInt(v) ==
    CASE v.t = "str" ->
            IF Len(v.parts) = 1 /\ v.parts[1] \in IntLiterals
            THEN Return(IntOfLiteral(v.parts[1]))
            ELSE Raise("ValueError", <<"invalid literal for int()">> \o v.parts)
      [] v.t = "int" -> Return(v.n)
      [] v.t = "float" ->
            Return(IF v.n >= 0 THEN v.n \div Micro ELSE -((-v.n) \div Micro))
      [] OTHER -> Raise("TypeError", <<"int() argument must be a string or a number", v.t>>)

\* ------------------------------------------------------- tool registry

\* The data-fetch tools (imported by pipeline.py:8).
DATA_TOOLS == {"get_income_statement"}

\* The compute tools and the compute function each names; the two growth
\* tools alias compute_growth (imported by pipeline.py:8).
COMPUTE_REGISTRY ==
    [tool \in {"compute_yoy_growth", "compute_qoq_growth", "compute_margin",
               "aggregate_quarters"} |->
        CASE tool = "compute_yoy_growth" -> "compute_growth"
          [] tool = "compute_qoq_growth" -> "compute_growth"
          [] tool = "compute_margin" -> "compute_margin"
          [] tool = "aggregate_quarters" -> "aggregate_quarters"]

ALL_TOOL_NAMES == DATA_TOOLS \cup DOMAIN COMPUTE_REGISTRY

\* A set of "no value" strings without the capitalised "None".
NullStringsLowercase == {<<"">>, <<"null">>, <<"none">>}

\* The literal strings the data step reads as "no value" (pipeline.py:31).
_NULL_STRINGS == {<<"">>, <<"null">>, <<"none">>, <<"None">>}

\* ------------------------------------------------------- the data source

\* Attribute names a reference path may use.  None of them is an attribute
\* of a Python float, int, str, list or None.
ObjectTypes ==
    {"IncomeStatementData", "FilingMetadata", "GrowthResult", "MarginResult",
     "AggregationResult"}

\* FilingMetadata accepts fiscal years 2000..2030 and quarters 1..4 or None.
MinFiscalYear == 2000
MaxFiscalYear == 2030

ValidPeriod(fiscal_year, quarter) ==
    /\ fiscal_year >= MinFiscalYear
    /\ fiscal_year <= MaxFiscalYear
    /\ quarter.t = "NoneType" \/ (quarter.t = "int" /\ quarter.n \in 1..4)

\* What the data source may answer to one call: a snapshot whose figures are
\* all present ("full"), a snapshot of a filing that lacks some figures
\* ("sparse"), or one of its two not-found errors.
Answers == {"full", "sparse", "CompanyNotFoundError", "FilingNotFoundError"}

FilingMetadata(ticker, fiscal_year, quarter) ==
    [t |-> "FilingMetadata",
     company |-> PStr(<<"Apple Inc.">>),
     ticker |-> ticker,
     filing_type |-> PStr(IF quarter.t = "NoneType" THEN <<"10-K">> ELSE <<"10-Q">>),
     fiscal_year |-> PInt(fiscal_year),
     quarter |-> quarter]

\* The snapshot of an answer "full" or "sparse" to a call; figures differ by
\* fiscal year so that growth between two years is not zero.
IncomeStatementData(shape, ticker, fiscal_year, quarter) ==
    LET up == IF fiscal_year = 2023 THEN 0 ELSE 20 * Micro
    IN  [t |-> "IncomeStatementData",
         metadata |-> FilingMetadata(ticker, fiscal_year, quarter),
         revenue |-> IF shape = "full" THEN PFloat(100 * Micro + up) ELSE PNone,
         cost_of_revenue |-> IF shape = "full" THEN PFloat(60 * Micro) ELSE PNone,
         gross_profit |-> PFloat(40 * Micro + up),
         operating_income |-> IF shape = "full" THEN PFloat(30 * Micro) ELSE PFloat(-30 * Micro),
         net_income |-> IF shape = "full" THEN PFloat(25 * Micro) ELSE PFloat(0),
         eps_basic |-> PFloat(3 * Micro),
         eps_diluted |-> IF shape = "full" THEN PFloat(2 * Micro) ELSE PNone]

\* EdgarClient.get_income_statement seen from the executor: the value it
\* returns or the exception it raises for the answer the source gives.
EdgarResult(answer, call) ==
    IF answer \in {"full", "sparse"}
    THEN Return(IncomeStatementData(answer, call.ticker, call.fiscal_year, call.quarter))
    ELSE Raise(answer, <<"not found", ToString(call.fiscal_year)>>)

\* The answers the source can give to a call: a snapshot only for a period
\* FilingMetadata accepts and a ticker that is a string.
AnswersTo(call) ==
    IF call.ticker.t = "str" /\ ValidPeriod(call.fiscal_year, call.quarter)
    THEN Answers
    ELSE {"CompanyNotFoundError", "FilingNotFoundError"}

\* ------------------------------------------------------- reference resolver

\* An accessor whose "eps" is the basic EPS.
GetMetricBasicEps(output, metric_name) ==
    CASE metric_name = "revenue" -> output.revenue
      [] metric_name = "net_income" -> output.net_income
      [] metric_name = "eps" -> output.eps_basic
      [] metric_name = "gross_margin" -> output.gross_profit
      [] metric_name = "operating_income" -> output.operating_income
      [] OTHER -> PNone

\* IncomeStatementData.get_metric: the semantic metric accessor.
get_metric(output, metric_name) ==
    CASE metric_name = "revenue" -> output.revenue
      [] metric_name = "net_income" -> output.net_income
      [] metric_name = "eps" -> output.eps_diluted
      [] metric_name = "gross_margin" -> output.gross_profit
      [] metric_name = "operating_income" -> output.operating_income
      [] OTHER -> PNone

\* hasattr(output, field) for the attribute names of the model.
hasattr(output, field) ==
    /\ output.t \in ObjectTypes
    /\ field \in DOMAIN output \ {"t"}

\* One hop of the field path (the body of the loop of _dereference).
Hop(output, field) ==
    IF output.t = "IncomeStatementData"
    THEN LET metric_val == get_metric(output, field)
         IN  IF metric_val.t # "NoneType" THEN Return(metric_val)
             ELSE IF hasattr(output, field) THEN Return(output[field])
             ELSE Raise("ComputationError",
                        <<"Field not found on IncomeStatementData", field>>)
    ELSE IF hasattr(output, field) THEN Return(output[field])
    ELSE Raise("ComputationError", <<"Cannot resolve field", field, output.t>>)

RECURSIVE Walk(_, _)
\* The loop of _dereference over the field path, left to right.
Walk(output, field_path) ==
    IF field_path = <<>> THEN Return(output)
    ELSE LET r == Hop(output, Head(field_path))
         IN  IF r.ok THEN Walk(r.val, Tail(field_path)) ELSE r

\* A resolver that reads a missing step output as None instead of raising.
DereferenceMissingAsNone(parts, prior_outputs) ==
    IF Len(parts) < 3
    THEN Raise("ComputationError", <<"Invalid step reference">> \o parts)
    ELSE LET id == PyInt(PStr(<<parts[2]>>))
         IN  IF ~id.ok THEN id
             ELSE IF id.val \notin DOMAIN prior_outputs THEN Return(PNone)
             ELSE Walk(prior_outputs[id.val], SubSeq(parts, 3, Len(parts)))

\* _dereference: resolve the reference whose split(":") is parts.
_dereference(parts, prior_outputs) ==
    IF Len(parts) < 3
    THEN Raise("ComputationError", <<"Invalid step reference">> \o parts)
    ELSE LET id == PyInt(PStr(<<parts[2]>>))
         IN  IF ~id.ok THEN id
             ELSE IF id.val \notin DOMAIN prior_outputs
             THEN Raise("ComputationError",
                        <<"Step output not found for reference", ToString(id.val)>>
                            \o parts)
             ELSE Walk(prior_outputs[id.val], SubSeq(parts, 3, Len(parts)))

\* value.startswith("$step:") on the segments of value.
IsReference(parts) == Len(parts) >= 2 /\ parts[1] = "$step"


\* ------------------------------------------------------- compute library

\* A str built by an f-string: its template and the values formatted in.
FormatStr(template, vals) == [t |-> "str", parts |-> <<template>>, vals |-> vals]

PList(items) == [t |-> "list", items |-> items]
PDict(period, value) == [t |-> "dict", period |-> period, value |-> value]

Abs(n) == IF n < 0 THEN -n ELSE n

RECURSIVE GCD(_, _)
GCD(a, b) == IF b = 0 THEN a ELSE GCD(b, a % b)

RECURSIVE Pow10(_)
Pow10(k) == IF k = 0 THEN 1 ELSE 10 * Pow10(k - 1)

RECURSIVE LongDiv(_, _, _)
\* The first k decimal digits of r / b (0 <= r < b) as an integer, and the
\* remainder left after them.
LongDiv(r, b, k) ==
    IF k = 0 THEN <<0, r>>
    ELSE LET rest == LongDiv((r * 10) % b, b, k - 1)
         IN  <<((r * 10) \div b) * Pow10(k - 1) + rest[1], rest[2]>>

\* A rounding that drops the digits after the k-th decimal place.
RoundRatioTruncates(a, b, k) ==
    LET g == GCD(Abs(a), Abs(b))
        n == Abs(a) \div g
        d == Abs(b) \div g
        mag == (n \div d) * Pow10(k) + LongDiv(n % d, d, k)[1]
    IN  IF (a < 0) = (b < 0) THEN mag ELSE -mag

\* A rounding that loses the sign of the ratio.
RoundRatioUnsigned(a, b, k) ==
    LET g == GCD(Abs(a), Abs(b))
        n == Abs(a) \div g
        d == Abs(b) \div g
        frac == LongDiv(n % d, d, k)
        low == (n \div d) * Pow10(k) + frac[1]
        up == 2 * frac[2] > d \/ (2 * frac[2] = d /\ low % 2 = 1)
    IN  IF up THEN low + 1 ELSE low

\* round(a / b, k) as an integer count of 10^-k, rounding half to even as
\* Python's round does (b # 0).
RoundRatio(a, b, k) ==
    LET g == GCD(Abs(a), Abs(b))
        n == Abs(a) \div g
        d == Abs(b) \div g
        frac == LongDiv(n % d, d, k)
        low == (n \div d) * Pow10(k) + frac[1]
        up == 2 * frac[2] > d \/ (2 * frac[2] = d /\ low % 2 = 1)
        mag == IF up THEN low + 1 ELSE low
    IN  IF (a < 0) = (b < 0) THEN mag ELSE -mag

\* fn(**args): the TypeError Python raises when the keyword arguments are not
\* the function's parameters (required: must be given; allowed: may be given).
BindError(args, required, allowed) ==
    IF DOMAIN args \subseteq allowed /\ required \subseteq DOMAIN args
    THEN <<>>
    ELSE <<"unexpected or missing keyword argument">>

TypeErrorOperand(op, a, b) ==
    Raise("TypeError", <<"unsupported operand type(s)", op, a.t, b.t>>)

ValidationError(field) == Raise("ValidationError", <<"Input should be a valid string", field>>)

\* compute_growth.
compute_growth(args) ==
    LET current_value == args["current_value"]
        previous_value == args["previous_value"]
        diff == MicroOf(current_value) - MicroOf(previous_value)
        pct == RoundRatio(diff, MicroOf(previous_value), 4)
    IN  IF IsNumber(previous_value) /\ MicroOf(previous_value) = 0
        THEN Raise("ComputationError",
                   <<"Cannot compute growth: previous period value is zero">>
                       \o args["metric_name"].parts \o args["previous_period"].parts)
        ELSE IF ~(IsNumber(current_value) /\ IsNumber(previous_value))
        THEN TypeErrorOperand("-", current_value, previous_value)
        ELSE IF ~IsStr(args["metric_name"]) THEN ValidationError("metric_name")
        ELSE IF ~IsStr(args["current_period"]) THEN ValidationError("current_period")
        ELSE IF ~IsStr(args["previous_period"]) THEN ValidationError("previous_period")
        ELSE Return(
            [t |-> "GrowthResult",
             metric_name |-> args["metric_name"],
             current_value |-> PFloat(MicroOf(current_value)),
             previous_value |-> PFloat(MicroOf(previous_value)),
             current_period |-> args["current_period"],
             previous_period |-> args["previous_period"],
             growth_rate |-> PFloat(RoundRatio(diff, MicroOf(previous_value), 6)),
             growth_percentage |-> PFloat(pct * 10000),
             formula |-> FormatStr("(a - b) / b = p%",
                            <<MicroOf(current_value), MicroOf(previous_value), pct>>)])

\* A margin that takes a numerator that has no value for zero.
ComputeMarginMissingIsZero(args) ==
    LET numerator == IF args["numerator"] = PNone THEN PFloat(0) ELSE args["numerator"]
        revenue == args["revenue"]
        pct == RoundRatio(MicroOf(numerator), MicroOf(revenue), 4)
    IN  IF IsNumber(revenue) /\ MicroOf(revenue) = 0
        THEN Raise("ComputationError", <<"Cannot compute margin: revenue is zero">>)
        ELSE IF ~(IsNumber(numerator) /\ IsNumber(revenue))
        THEN TypeErrorOperand("/", numerator, revenue)
        ELSE Return(
            [t |-> "MarginResult",
             metric_name |-> args["metric_name"],
             numerator |-> PFloat(MicroOf(numerator)),
             revenue |-> PFloat(MicroOf(revenue)),
             period |-> args["period"],
             margin_rate |-> PFloat(RoundRatio(MicroOf(numerator), MicroOf(revenue), 6)),
             margin_percentage |-> PFloat(pct * 10000),
             formula |-> FormatStr("n / r = p%",
                            <<MicroOf(numerator), MicroOf(revenue), pct>>)])

\* compute_margin.
compute_margin(args) ==
    LET numerator == args["numerator"]
        revenue == args["revenue"]
        pct == RoundRatio(MicroOf(numerator), MicroOf(revenue), 4)
    IN  IF IsNumber(revenue) /\ MicroOf(revenue) = 0
        THEN Raise("ComputationError",
                   <<"Cannot compute margin: revenue is zero">>
                       \o args["metric_name"].parts \o args["period"].parts)
        ELSE IF ~(IsNumber(numerator) /\ IsNumber(revenue))
        THEN TypeErrorOperand("/", numerator, revenue)
        ELSE IF ~IsStr(args["metric_name"]) THEN ValidationError("metric_name")
        ELSE IF ~IsStr(args["period"]) THEN ValidationError("period")
        ELSE Return(
            [t |-> "MarginResult",
             metric_name |-> args["metric_name"],
             numerator |-> PFloat(MicroOf(numerator)),
             revenue |-> PFloat(MicroOf(revenue)),
             period |-> args["period"],
             margin_rate |-> PFloat(RoundRatio(MicroOf(numerator), MicroOf(revenue), 6)),
             margin_percentage |-> PFloat(pct * 10000),
             formula |-> FormatStr("n / r = p%",
                            <<MicroOf(numerator), MicroOf(revenue), pct>>)])

\* bool(v) is False: what "if not quarter_data" tests.
Falsy(v) ==
    \/ v.t = "NoneType"
    \/ v.t = "str" /\ v.parts = <<"">>
    \/ v.t \in {"int", "float"} /\ v.n = 0
    \/ v.t = "list" /\ v.items = <<>>

\* A sum that counts the last value only.
SumMicroLastOnly(items) ==
    IF items = <<>> THEN 0 ELSE MicroOf(items[Len(items)].value)

RECURSIVE SumMicro(_)
SumMicro(items) ==
    IF items = <<>> THEN 0 ELSE MicroOf(Head(items).value) + SumMicro(Tail(items))

\* aggregate_quarters; method defaults to "sum".
aggregate_quarters(args) ==
    LET quarter_data == args["quarter_data"]
        method == IF "method" \in DOMAIN args THEN args["method"] ELSE PStr(<<"sum">>)
        items == quarter_data.items
        total == SumMicro(items)
        count == IF method = PStr(<<"sum">>) THEN 1 ELSE Len(items)
    IN  IF Falsy(quarter_data)
        THEN Raise("ComputationError",
                   <<"No quarter data provided for aggregation">>)
        ELSE IF quarter_data.t # "list"
                \/ \E i \in 1..Len(items) : items[i].t # "dict"
        THEN Raise("TypeError", <<"indices must be integers", quarter_data.t>>)
        ELSE IF method \notin {PStr(<<"sum">>), PStr(<<"average">>)}
        THEN Raise("ComputationError", <<"Unknown aggregation method">>)
        ELSE IF \E i \in 1..Len(items) : ~IsNumber(items[i].value)
        THEN Raise("TypeError", <<"unsupported operand type(s)", "+">>)
        ELSE IF ~IsStr(args["metric_name"]) THEN ValidationError("metric_name")
        ELSE Return(
            [t |-> "AggregationResult",
             metric_name |-> args["metric_name"],
             values |-> PList([i \in 1..Len(items) |-> PFloat(MicroOf(items[i].value))]),
             periods |-> PList([i \in 1..Len(items) |-> items[i].period]),
             method |-> method,
             result |-> PFloat(RoundRatio(total, 10000 * count, 0) * 10000),
             formula |-> FormatStr(method.parts[1], <<total, count>>)])

\* ------------------------------------------------------- decimal numbers

\* The floats of the numeric claim verifier (src/src/sec_llm/guardrails.py)
\* range from hundredths to 10^12 and more, so they are modelled by exact
\* decimals m * 10^e, kept in the normal form in which m does not end in 0
\* (0 is [m |-> 0, e |-> 0]); equal numbers are equal records.
RECURSIVE Dec(_, _)
Dec(m, e) ==
    IF m = 0 THEN [m |-> 0, e |-> 0]
    ELSE IF m % 10 = 0 THEN Dec(m \div 10, e + 1)
    ELSE [m |-> m, e |-> e]

DecZero == Dec(0, 0)

RECURSIVE NumDigits(_)
NumDigits(n) == IF n < 10 THEN 1 ELSE 1 + NumDigits(n \div 10)

\* The position of the leading digit of a nonzero decimal.
Magnitude(d) == NumDigits(Abs(d.m)) + d.e

DecNeg(d) == [m |-> -d.m, e |-> d.e]
DecAbs(d) == [m |-> Abs(d.m), e |-> d.e]

\* a <= b for decimals a, b >= 0.
LeqNonNeg(a, b) ==
    IF a.m = 0 THEN TRUE
    ELSE IF b.m = 0 THEN FALSE
    ELSE IF Magnitude(a) # Magnitude(b) THEN Magnitude(a) < Magnitude(b)
    ELSE LET lo == IF a.e < b.e THEN a.e ELSE b.e
         IN  a.m * Pow10(a.e - lo) <= b.m * Pow10(b.e - lo)

\* a <= b.
DecLeq(a, b) ==
    IF a.m < 0 /\ b.m >= 0 THEN TRUE
    ELSE IF a.m >= 0 /\ b.m < 0 THEN FALSE
    ELSE IF a.m < 0 THEN LeqNonNeg(DecAbs(b), DecAbs(a))
    ELSE LeqNonNeg(a, b)

\* a - b.
DecSub(a, b) ==
    LET lo == IF a.e < b.e THEN a.e ELSE b.e
    IN  Dec(a.m * Pow10(a.e - lo) - b.m * Pow10(b.e - lo), lo)

\* a * b.
DecMul(a, b) == Dec(a.m * b.m, a.e + b.e)

\* float(v) of a float or an int of the executor model (millionths).
DecOfMicro(n) == Dec(n, -6)

\* ------------------------------------------------------- numeric claim verifier

\* A text is the list of its characters, except that a run of letters is
\* given as the scale word it starts with in some letter case, if any, and
\* the rest of the run as one more element: "$5 Billions" is
\* <<"$", "5", " ", "Billion", "s">>.
Digits == {"0", "1", "2", "3", "4", "5", "6", "7", "8", "9"}

DigitVal(c) ==
    CASE c = "0" -> 0 [] c = "1" -> 1 [] c = "2" -> 2 [] c = "3" -> 3 [] c = "4" -> 4
      [] c = "5" -> 5 [] c = "6" -> 6 [] c = "7" -> 7 [] c = "8" -> 8 [] c = "9" -> 9

\* \s of the regular expressions.
Whitespace == {" ", "\n", "\t"}

\* A lower() that leaves the letter case as it is.
LowerKeepsCase(word) == word

\* str.lower() on the words of the texts explored.
Lower(word) ==
    CASE word \in {"Thousand", "THOUSAND"} -> "thousand"
      [] word \in {"Million", "MILLION", "mIlLiOn"} -> "million"
      [] word \in {"Billion", "BILLION"} -> "billion"
      [] word \in {"Trillion", "TRILLION"} -> "trillion"
      [] word = "Percent" -> "percent"
      [] OTHER -> word

\* The alternatives of the scale group, matched with re.IGNORECASE.
ScaleWords == {"billion", "million", "thousand", "trillion"}

\* The end of the longest run of elements of class that starts at position
\* i of text (i - 1 when text[i] is not in class).
RECURSIVE RunEnd(_, _, _)
RunEnd(text, i, class) ==
    IF i <= Len(text) /\ text[i] \in class THEN RunEnd(text, i + 1, class) ELSE i - 1

\* s.replace(",", "").
RemoveCommas(chars) == SelectSeq(chars, LAMBDA c : c # ",")

RECURSIVE DigitsValue(_)
DigitsValue(chars) ==
    IF chars = <<>> THEN 0
    ELSE 10 * DigitsValue(SubSeq(chars, 1, Len(chars) - 1)) + DigitVal(chars[Len(chars)])

\* float(s) for a str s of digits, "." and "-": the number, or ValueError
\* when s is not [-]digits[.digits] with a digit on one side of the point.
PyFloat(chars) ==
    LET neg == chars # <<>> /\ chars[1] = "-"
        body == IF neg THEN Tail(chars) ELSE chars
        dots == {i \in 1..Len(body) : body[i] = "."}
        point == IF dots = {} THEN Len(body) + 1 ELSE CHOOSE i \in dots : TRUE
        whole == SubSeq(body, 1, point - 1)
        frac == SubSeq(body, point + 1, Len(body))
        all == whole \o frac
        mag == Dec(DigitsValue(all), -Len(frac))
    IN  IF /\ Cardinality(dots) <= 1
           /\ all # <<>>
           /\ \A i \in 1..Len(all) : all[i] \in Digits
        THEN Return(IF neg THEN DecNeg(mag) ELSE mag)
        ELSE Raise("ValueError", <<"could not convert string to float">>)

\* re.findall(r"\$?([\d,]+\.?\d*)\s*(billion|million|thousand|trillion)?",
\* text, re.IGNORECASE) from position i on: the (number, scale) groups of
\* the successive non-overlapping matches.  Every part after [\d,]+ may
\* match nothing, so the greedy choice of each part is the match.
RECURSIVE FindAmounts(_, _)
FindAmounts(text, i) ==
    IF i > Len(text) THEN <<>>
    ELSE
    LET start == IF text[i] = "$" THEN i + 1 ELSE i
        run == RunEnd(text, start, Digits \cup {","})
        point == IF run + 1 <= Len(text) /\ text[run + 1] = "." THEN run + 1 ELSE run
        last == RunEnd(text, point + 1, Digits)
        spaces == RunEnd(text, last + 1, Whitespace)
        scaled == spaces + 1 <= Len(text) /\ Lower(text[spaces + 1]) \in ScaleWords
        stop == IF scaled THEN spaces + 1 ELSE spaces
    IN  IF run < start THEN FindAmounts(text, i + 1)
        ELSE <<[num_str |-> SubSeq(text, start, last),
                scale |-> IF scaled THEN text[spaces + 1] ELSE ""]>>
             \o FindAmounts(text, stop + 1)

\* The str text[i..j] is matched by [\-\d,]+\.?\d* as a whole.
IsSignedDecimal(chars) ==
    LET dots == {i \in 1..Len(chars) : chars[i] = "."}
        point == IF dots = {} THEN Len(chars) + 1 ELSE CHOOSE i \in dots : TRUE
    IN  /\ Cardinality(dots) <= 1
        /\ point > 1
        /\ \A i \in 1..(point - 1) : chars[i] \in Digits \cup {",", "-"}
        /\ \A i \in (point + 1)..Len(chars) : chars[i] \in Digits

\* re.findall(r"([\-\d,]+\.?\d*)%", text) from position i on.  No part of
\* the group can match "%", so a match that starts at i ends at the first
\* "%" after i.
RECURSIVE FindPercentages(_, _)
FindPercentages(text, i) ==
    LET signs == {p \in i..Len(text) : text[p] = "%"}
        sign == CHOOSE p \in signs : \A q \in signs : p <= q
    IN  IF signs = {} THEN <<>>
        ELSE IF IsSignedDecimal(SubSeq(text, i, sign - 1))
        THEN <<SubSeq(text, i, sign - 1)>> \o FindPercentages(text, sign + 1)
        ELSE FindPercentages(text, i + 1)

\* The factor of a scale word (guardrails.py:94-102).
ScaleFactor(scale_lower) ==
    CASE scale_lower = "trillion" -> Dec(1, 12)
      [] scale_lower = "billion" -> Dec(1, 9)
      [] scale_lower = "million" -> Dec(1, 6)
      [] scale_lower = "thousand" -> Dec(1, 3)
      [] OTHER -> Dec(1, 0)

\* The first loop of extract_numbers over the groups found.
RECURSIVE AmountValues(_)
AmountValues(dollar_scale) ==
    IF dollar_scale = <<>> THEN <<>>
    ELSE LET value == PyFloat(RemoveCommas(Head(dollar_scale).num_str))
             scale_lower == Lower(Head(dollar_scale).scale)
         IN  (IF value.ok THEN <<DecMul(value.val, ScaleFactor(scale_lower))>> ELSE <<>>)
             \o AmountValues(Tail(dollar_scale))

\* The second loop of extract_numbers.
RECURSIVE PercentageValues(_)
PercentageValues(percentages) ==
    IF percentages = <<>> THEN <<>>
    ELSE LET value == PyFloat(RemoveCommas(Head(percentages)))
         IN  (IF value.ok THEN <<value.val>> ELSE <<>>)
             \o PercentageValues(Tail(percentages))

\* extract_numbers.
extract_numbers(text) ==
    AmountValues(FindAmounts(text, 1)) \o PercentageValues(FindPercentages(text, 1))

\* _matches_any.  relative_diff <= tolerance is evaluated as
\* |value - truth_val| <= tolerance * |truth_val| (truth_val # 0).
_matches_any(value, truth_set, tolerance) ==
    IF value = DecZero THEN DecZero \in truth_set
    ELSE \E truth_val \in truth_set :
            /\ truth_val # DecZero
            /\ DecLeq(DecAbs(DecSub(value, truth_val)),
                      DecMul(tolerance, DecAbs(truth_val)))

RECURSIVE WithoutRepetitions(_)
WithoutRepetitions(numbers) ==
    IF numbers = <<>> THEN <<>>
    ELSE LET front == WithoutRepetitions(SubSeq(numbers, 1, Len(numbers) - 1))
             last == numbers[Len(numbers)]
         IN  IF \E i \in 1..Len(front) : front[i] = last THEN front
             ELSE Append(front, last)

\* A verifier that reports each unverified value once.
VerifySummaryDistinct(summary, truth_set, tolerance) ==
    IF summary = <<>> \/ truth_set = {} THEN <<>>
    ELSE WithoutRepetitions(
            SelectSeq(extract_numbers(summary),
                      LAMBDA number : ~_matches_any(number, truth_set, tolerance)))

\* A verifier without the short-circuit for an empty truth set.
VerifySummaryNoShortCircuit(summary, truth_set, tolerance) ==
    IF summary = <<>> THEN <<>>
    ELSE SelectSeq(extract_numbers(summary),
                   LAMBDA number : ~_matches_any(number, truth_set, tolerance))

\* verify_summary.
verify_summary(summary, truth_set, tolerance) ==
    IF summary = <<>> \/ truth_set = {} THEN <<>>
    ELSE SelectSeq(extract_numbers(summary),
                   LAMBDA number : ~_matches_any(number, truth_set, tolerance))

\* dict.get(key): None when the key is absent.
Get(data, key) == IF key \in DOMAIN data THEN data[key] ELSE PNone

\* float(value) of an int or a float.
FloatOf(value) == IF value.t = "int" THEN Dec(value.n, 0) ELSE DecOfMicro(value.n)

\* The keys build_truth_set reads from a raw-data dict and from a
\* computation dict.
RawKeys ==
    {"revenue", "cost_of_revenue", "gross_profit", "operating_income", "net_income",
     "eps_basic", "eps_diluted"}

ComputationKeys ==
    {"growth_rate", "growth_percentage", "current_value", "previous_value", "margin_rate",
     "margin_percentage", "numerator", "revenue", "result"}

\* The values one dict adds under the given keys: those that are not None.
KeyedValues(data, keys) == {Get(data, key) : key \in keys} \ {PNone}

\* The elements of comp["values"] when comp has that key.
ListedValues(comp) ==
    IF "values" \in DOMAIN comp
    THEN {comp["values"].items[i] : i \in 1..Len(comp["values"].items)}
    ELSE {}

\* A truth-set builder that reads every listed key from every dict.
BuildTruthSetAnyKey(raw_data, computations) ==
    LET keys == RawKeys \cup ComputationKeys
        added == UNION {KeyedValues(raw_data[i], keys) : i \in 1..Len(raw_data)}
                 \cup UNION {KeyedValues(computations[i], keys)
                                \cup ListedValues(computations[i]) :
                             i \in 1..Len(computations)}
    IN  IF \E value \in added : ~IsNumber(value)
        THEN Raise("TypeError", <<"float() argument must be a string or a real number">>)
        ELSE Return({FloatOf(value) : value \in added})

\* build_truth_set over lists of dicts whose values are floats, ints, None,
\* lists of numbers, dicts or strings that do not spell a number; float()
\* of anything but a number raises.
build_truth_set(raw_data, computations) ==
    LET added == UNION {KeyedValues(raw_data[i], RawKeys) : i \in 1..Len(raw_data)}
                 \cup UNION {KeyedValues(computations[i], ComputationKeys)
                                \cup ListedValues(computations[i]) :
                             i \in 1..Len(computations)}
    IN  IF \E value \in added : ~IsNumber(value)
        THEN Raise("TypeError", <<"float() argument must be a string or a real number">>)
        ELSE Return({FloatOf(value) : value \in added})


\* ------------------------------------------------------- plan executor

\* {a.name: a.value for a in step.args}: the value of the last argument of
\* each name (pipeline.py:96).
ArgsDict(args) ==
    [name \in {args[i].name : i \in 1..Len(args)} |->
        LET last == CHOOSE i \in 1..Len(args) :
                        /\ args[i].name = name
                        /\ \A j \in (i + 1)..Len(args) : args[j].name # name
        IN  args[last].value]

\* The dict's keys in insertion order: each name at its first occurrence.
KeyOrder(args) ==
    SelectSeq([i \in 1..Len(args) |->
                  IF \E j \in 1..(i - 1) : args[j].name = args[i].name
                  THEN "" ELSE args[i].name],
              LAMBDA name : name # "")

\* The resolution of one argument value: a reference is dereferenced, any
\* other text is passed on as it is.  (Plan values are always str, so the
\* list branch of _resolve_args is never taken.)
ResolveValue(parts, prior_outputs) ==
    IF IsReference(parts) THEN _dereference(parts, prior_outputs)
    ELSE Return(PStr(parts))

\* _resolve_args: the resolved dict, or the exception of the first argument,
\* in key order, whose reference does not resolve.
_resolve_args(args, prior_outputs) ==
    LET d == ArgsDict(args)
        keys == KeyOrder(args)
        bad == {i \in 1..Len(keys) : ~ResolveValue(d[keys[i]], prior_outputs).ok}
    IN  IF bad # {}
        THEN ResolveValue(d[keys[CHOOSE i \in bad : \A j \in bad : i <= j]],
                          prior_outputs)
        ELSE Return([name \in DOMAIN d |-> ResolveValue(d[name], prior_outputs).val])

\* "v in _NULL_STRINGS": a set lookup hashes v, and a pydantic model or a
\* list is unhashable.
InNullStrings(v) ==
    IF v.t \in ObjectTypes \cup {"list", "dict"}
    THEN Raise("TypeError", <<"unhashable type", v.t>>)
    ELSE Return(v.t = "str" /\ v.parts \in _NULL_STRINGS)

\* _execute_data_step up to its await: the call it makes on the data source,
\* or the exception it raises before making one.
_execute_data_step(tool, args) ==
    IF tool # "get_income_statement"
    THEN Raise("ComputationError", <<"Unknown data tool", tool>>)
    ELSE
    LET quarter_raw == IF "quarter" \in DOMAIN args THEN args["quarter"] ELSE PStr(<<"">>)
        q_null == InNullStrings(quarter_raw)
        q_int == PyInt(quarter_raw)
        fy_null == InNullStrings(args["fiscal_year"])
        fy_int == PyInt(args["fiscal_year"])
    IN  IF ~q_null.ok THEN q_null
        ELSE IF ~q_null.val /\ ~q_int.ok THEN q_int
        ELSE IF "fiscal_year" \notin DOMAIN args THEN Raise("KeyError", <<"fiscal_year">>)
        ELSE IF ~fy_null.ok THEN fy_null
        ELSE IF fy_null.val THEN Raise("ComputationError", <<"fiscal_year is required">>)
        ELSE IF "ticker" \notin DOMAIN args THEN Raise("KeyError", <<"ticker">>)
        ELSE IF ~fy_int.ok THEN fy_int
        ELSE Return([ticker |-> args["ticker"],
                     fiscal_year |-> fy_int.val,
                     quarter |-> IF q_null.val THEN PNone ELSE PInt(q_int.val)])

\* _execute_compute_step: fn = COMPUTE_REGISTRY[tool]; fn(**args).
_execute_compute_step(tool, args) ==
    LET fn == COMPUTE_REGISTRY[tool]
        growth == {"metric_name", "current_value", "previous_value",
                   "current_period", "previous_period"}
        margin == {"metric_name", "numerator", "revenue", "period"}
        bind == CASE fn = "compute_growth" -> BindError(args, growth, growth)
                  [] fn = "compute_margin" -> BindError(args, margin, margin)
                  [] fn = "aggregate_quarters" ->
                        BindError(args, {"metric_name", "quarter_data"},
                                  {"metric_name", "quarter_data", "method"})
    IN  IF bind # <<>> THEN Raise("TypeError", bind)
        ELSE CASE fn = "compute_growth" -> compute_growth(args)
               [] fn = "compute_margin" -> compute_margin(args)
               [] fn = "aggregate_quarters" -> aggregate_quarters(args)

\* An executor that refuses a step until every id of its depends_on has an
\* output.
ExecuteStepAfterDependencies(step, prior_outputs) ==
    LET resolved_args == _resolve_args(step.args, prior_outputs)
    IN  IF ~(step.depends_on \subseteq DOMAIN prior_outputs)
        THEN [handler |-> "none", await |-> FALSE,
              res |-> Raise("ComputationError", <<"Dependency not satisfied">>)]
        ELSE IF ~resolved_args.ok
        THEN [handler |-> "none", await |-> FALSE, res |-> resolved_args]
        ELSE IF step.tool \in DATA_TOOLS
        THEN LET call == _execute_data_step(step.tool, resolved_args.val)
             IN  [handler |-> "data", await |-> call.ok, res |-> call]
        ELSE IF step.tool \in DOMAIN COMPUTE_REGISTRY
        THEN [handler |-> "compute", await |-> FALSE,
              res |-> _execute_compute_step(step.tool, resolved_args.val)]
        ELSE [handler |-> "none", await |-> FALSE,
              res |-> Raise("ComputationError", <<"Unknown tool", step.tool>>)]

\* _execute_step up to its first await.  handler names the handler the step
\* was routed to ("none" when it raised before routing); a data step that
\* reaches its call has await = TRUE and res the call, every other step has
\* res its result: the value returned or the exception raised.
_execute_step(step, prior_outputs) ==
    LET resolved_args == _resolve_args(step.args, prior_outputs)
    IN  IF ~resolved_args.ok
        THEN [handler |-> "none", await |-> FALSE, res |-> resolved_args]
        ELSE IF step.tool \in DATA_TOOLS
        THEN LET call == _execute_data_step(step.tool, resolved_args.val)
             IN  [handler |-> "data", await |-> call.ok, res |-> call]
        ELSE IF step.tool \in DOMAIN COMPUTE_REGISTRY
        THEN [handler |-> "compute", await |-> FALSE,
              res |-> _execute_compute_step(step.tool, resolved_args.val)]
        ELSE [handler |-> "none", await |-> FALSE,
              res |-> Raise("ComputationError", <<"Unknown tool", step.tool>>)]

\* A validation that looks at the first step only.
ValidateFirstStepOnly(steps) ==
    IF steps[1].tool \in ALL_TOOL_NAMES THEN Return(PNone)
    ELSE Raise("ComputationError", <<"Unknown tool in plan", steps[1].tool>>)

\* _validate_plan: the exception for the first step whose tool is unknown,
\* or Return(None).
_validate_plan(steps) ==
    LET bad == {i \in 1..Len(steps) : steps[i].tool \notin ALL_TOOL_NAMES}
    IN  IF bad = {} THEN Return(PNone)
        ELSE Raise("ComputationError",
                   <<"Unknown tool in plan",
                     steps[CHOOSE i \in bad : \A j \in bad : i <= j].tool>>)

\* A failure record that also carries an empty output.
FailureResultWithOutput(step, exc) ==
    [step_id |-> step.step_id, tool |-> step.tool, success |-> FALSE,
     error |-> exc.msg, output |-> PNone]

\* The StepResult dicts execute appends (pipeline.py:76-81 and 84-89).
SuccessResult(step, output) ==
    [step_id |-> step.step_id, tool |-> step.tool, success |-> TRUE, output |-> output]

FailureResult(step, exc) ==
    [step_id |-> step.step_id, tool |-> step.tool, success |-> FALSE, error |-> exc.msg]

\* step_outputs[step_id] = output.
Store(step_outputs, step_id, output) ==
    [id \in DOMAIN step_outputs \cup {step_id} |->
        IF id = step_id THEN output ELSE step_outputs[id]]


\* ------------------------------------------------------- plans explored

Arg(name, value) == [name |-> name, value |-> value]

Tool(tool, args) == [tool |-> tool, args |-> args]

Fetch(fiscal_year, rest) ==
    Tool("get_income_statement",
         <<Arg("ticker", <<"AAPL">>), Arg("fiscal_year", fiscal_year)>> \o rest)

Margin(numerator, revenue) ==
    Tool("compute_margin",
         <<Arg("metric_name", <<"gross_margin">>), Arg("numerator", numerator),
           Arg("revenue", revenue), Arg("period", <<"FY2023">>)>>)

Growth(tool, current_value, previous_value) ==
    Tool(tool,
         <<Arg("metric_name", <<"revenue">>), Arg("current_value", current_value),
           Arg("previous_value", previous_value),
           Arg("current_period", <<"FY2024">>), Arg("previous_period", <<"FY2023">>)>>)

\* Steps that may stand anywhere in an explored plan: two fetches, a margin
\* and a growth over earlier outputs, and a tool outside the registry.
CoreSteps ==
    {Fetch(<<"2023">>, <<>>),
     Fetch(<<"2024">>, <<Arg("quarter", <<"1">>)>>),
     Margin(<<"$step", "0", "gross_margin">>, <<"$step", "0", "revenue">>),
     Growth("compute_yoy_growth", <<"$step", "1", "revenue">>, <<"$step", "0", "revenue">>),
     Tool("get_balance_sheet", <<Arg("ticker", <<"AAPL">>)>>)}

\* References and literals tried as the numerator of a margin step.
RefProbes ==
    {<<"$step", "0">>, <<"$step", "">>, <<"$step", "x", "revenue">>,
     <<"$step", "0", "bogus">>, <<"$step", "0", "revenue", "bogus">>,
     <<"$step", "0", "metadata", "fiscal_year">>, <<"$step", "0", "metadata">>,
     <<"$step", "0", "eps">>, <<"$step", "0", "eps_basic">>,
     <<"$step", "0", "eps_diluted">>, <<"$step", "0", "gross_profit">>,
     <<"$step", "0", "net_income">>, <<"$step", "0", "operating_income">>,
     <<"$step", "0", "cost_of_revenue">>, <<"$step", "0", "revenue">>,
     <<"$step", "1", "margin_rate">>, <<"$step", "1", "bogus">>,
     <<"$step", "1", "revenue">>, <<"$step", "1", "formula">>,
     <<"$step", "2", "revenue">>, <<"60">>}

\* Texts tried as the quarter and as the fiscal year of a fetch.
QuarterProbes ==
    {<<"">>, <<"null">>, <<"none">>, <<"None">>, <<"NULL">>, <<"2">>, <<"abc">>,
     <<"$step", "0", "metadata", "quarter">>,
     <<"$step", "0", "metadata", "fiscal_year">>,
     <<"$step", "0", "metadata">>}

FiscalYearProbes ==
    {<<"">>, <<"null">>, <<"none">>, <<"None">>, <<"abc">>,
     <<"$step", "0", "revenue">>, <<"$step", "0", "cost_of_revenue">>,
     <<"$step", "0", "metadata">>}

\* Steps explored only as the last step of a plan.
ProbeSteps ==
    {Margin(x, <<"$step", "0", "revenue">>) : x \in RefProbes}
    \cup {Margin(<<"$step", "0", "bogus">>, <<"$step", "1", "revenue">>)}
    \cup {Margin(<<"$step", "0", "gross_margin">>, x) :
            x \in {<<"100">>, <<"$step", "0", "net_income">>,
                   <<"$step", "0", "cost_of_revenue">>}}
    \cup {Fetch(<<"2024">>, <<Arg("quarter", q)>>) : q \in QuarterProbes}
    \cup {Fetch(fy, <<>>) : fy \in FiscalYearProbes}
    \cup {Fetch(<<"$step", "0", "metadata", "fiscal_year">>, <<>>),
          Growth("compute_qoq_growth", <<"$step", "1", "margin_percentage">>,
                 <<"$step", "0", "net_income">>),
          Fetch(<<"">>, <<Arg("fiscal_year", <<"2023">>)>>),
          Tool("get_income_statement", <<Arg("ticker", <<"AAPL">>)>>),
          Tool("get_income_statement", <<Arg("fiscal_year", <<"2023">>)>>),
          Tool("get_income_statement",
               <<Arg("ticker", <<"$step", "0", "revenue">>),
                 Arg("fiscal_year", <<"2023">>)>>),
          Tool("compute_margin",
               <<Arg("metric_name", <<"gross_margin">>),
                 Arg("numerator", <<"$step", "0", "gross_margin">>),
                 Arg("revenue", <<"$step", "0", "revenue">>)>>),
          Tool("compute_margin",
               <<Arg("metric_name", <<"$step", "0", "revenue">>),
                 Arg("numerator", <<"$step", "0", "gross_margin">>),
                 Arg("revenue", <<"$step", "0", "revenue">>),
                 Arg("period", <<"FY2023">>)>>),
          Tool("aggregate_quarters",
               <<Arg("metric_name", <<"revenue">>), Arg("quarter_data", <<"">>)>>),
          Tool("aggregate_quarters",
               <<Arg("metric_name", <<"revenue">>),
                 Arg("quarter_data", <<"$step", "0", "revenue">>),
                 Arg("method", <<"average">>)>>)}

\* The sequences of length 1..n whose steps are core steps, except the last,
\* which is any step.
RECURSIVE CorePrefixes(_)
CorePrefixes(n) ==
    IF n = 0 THEN {<<>>}
    ELSE LET shorter == CorePrefixes(n - 1)
         IN  shorter \cup {Append(p, c) : p \in {q \in shorter : Len(q) = n - 1},
                                          c \in CoreSteps}

ToolSeqs(n) ==
    {Append(p, c) : p \in CorePrefixes(n - 1), c \in CoreSteps \cup ProbeSteps}

\* How step ids are given: by position (0, 1, 2, ...), or the same id 0 to
\* every step (PlanStep does not require distinct ids).
IdModes == {"position", "same"}

\* The depends_on given to every step: nothing, or every id of the plan
\* (including the ids of later steps).
DepModes == {"none", "all"}

StepIdAt(mode, i) == IF mode = "position" THEN i - 1 ELSE 0

\* The ExecutionPlan.steps built from a sequence of tools and arguments.
\* (description and reasoning are free text the executor never reads.)
PlanOf(tools, id_mode, dep_mode) ==
    [i \in 1..Len(tools) |->
        [step_id |-> StepIdAt(id_mode, i),
         tool |-> tools[i].tool,
         args |-> tools[i].args,
         depends_on |-> IF dep_mode = "none" THEN {}
                        ELSE {StepIdAt(id_mode, j) : j \in 1..Len(tools)}]]

\* The plans of a single run, with empty depends_on (plans that differ in
\* depends_on are explored by the two-run specification).
Plans(n) ==
    {PlanOf(tools, id_mode, "none") : tools \in ToolSeqs(n), id_mode \in IdModes}


\* ------------------------------------------------------- state

\* Two execute calls are modelled; the second is used where two runs are
\* compared and stays idle otherwise.
Runs == {1, 2}

VARIABLES
    plan,          \* plan[r]: the steps of the ExecutionPlan run r was given
    pc,            \* pc[r]: "idle", "start", "running", "awaiting", "raised", "done"
    idx,           \* idx[r]: position in plan[r] of the step the loop is at
    results,       \* results[r]: the list execute appends StepResults to
    step_outputs,  \* step_outputs[r]: the dict step_id -> output of execute
    pending,       \* pending[r]: the data-source call run r awaits, as a list
    raised,        \* raised[r]: the exception execute raised to its caller, as a list
    edgar_calls,   \* edgar_calls[r]: the calls the data source answered: step, call, answer
    attempts,      \* attempts[r]: what each _execute_step call did: the step's
                   \*   position, the handler it was routed to, and whether it
                   \*   returned or raised (with the exception)
    libcall,       \* a call of a library function: its name and arguments
    libret,        \* what that call returned or raised, as a list (empty
                   \*   until the call is made)
    now,           \* time.monotonic(), in seconds
    _rate_state,   \* api/chat.py _rate_state: client ip -> list of hit times
    chat_log,      \* the requests the chat handler received, in order: client
                   \*   ip, time, and how far each got
    _store,        \* TTLCache._store of the data client: key -> (time, value)
    proc,          \* where QueryPipeline.process is
    calls,         \* the collaborators process has invoked, in order
    process_ret    \* the AnalysisResponse process returned, as a list

\* The state of the HTTP service around the executor, and of process.
serviceVars == <<now, _rate_state, chat_log, _store>>

processVars == <<proc, calls, process_ret>>

vars == <<plan, pc, idx, results, step_outputs, pending, raised, edgar_calls, attempts,
          libcall, libret, serviceVars, processVars>>

\* No request was received, the cache is empty and process is not running.
InitService ==
    /\ now = 0
    /\ _rate_state = <<>>
    /\ chat_log = <<>>
    /\ _store = <<>>

ProcessIdle ==
    /\ proc = "idle"
    /\ calls = <<>>
    /\ process_ret = <<>>

\* No library function is called on its own.
NoCall == [fn |-> "none"]

Idle(r) ==
    /\ plan[r] = <<>>
    /\ pc[r] = "idle"

InitRun ==
    /\ idx = [r \in Runs |-> 0]
    /\ results = [r \in Runs |-> <<>>]
    /\ step_outputs = [r \in Runs |-> <<>>]
    /\ pending = [r \in Runs |-> <<>>]
    /\ raised = [r \in Runs |-> <<>>]
    /\ edgar_calls = [r \in Runs |-> <<>>]
    /\ attempts = [r \in Runs |-> <<>>]

\* One execute call on a freshly constructed executor.
Init ==
    /\ \E p \in Plans(MaxSteps) : plan = [r \in Runs |-> IF r = 1 THEN p ELSE <<>>]
    /\ pc = [r \in Runs |-> IF r = 1 THEN "start" ELSE "idle"]
    /\ InitRun
    /\ libcall = NoCall
    /\ libret = <<>>
    /\ InitService
    /\ ProcessIdle

\* Steps of the plans given to two runs that are compared: a fetch, the
\* margin over step 0 and the growth over steps 1 and 0.
PairSteps ==
    {Fetch(<<"2023">>, <<>>),
     Margin(<<"$step", "0", "gross_margin">>, <<"$step", "0", "revenue">>),
     Growth("compute_qoq_growth", <<"$step", "1", "margin_percentage">>,
            <<"$step", "0", "net_income">>)}

RECURSIVE PairToolSeqs(_)
PairToolSeqs(n) ==
    IF n = 0 THEN {<<>>}
    ELSE LET shorter == PairToolSeqs(n - 1)
         IN  shorter \cup {Append(p, c) : p \in {q \in shorter : Len(q) = n - 1},
                                          c \in PairSteps}

\* Two execute calls whose plans differ at most in their steps' depends_on.
InitPair ==
    /\ \E tools \in PairToolSeqs(MaxPairSteps) \ {<<>>},
          id_mode \in IdModes, dep_mode \in DepModes :
          plan = [r \in Runs |-> PlanOf(tools, id_mode, IF r = 1 THEN "none" ELSE dep_mode)]
    /\ pc = [r \in Runs |-> "start"]
    /\ InitRun
    /\ libcall = NoCall
    /\ libret = <<>>
    /\ InitService
    /\ ProcessIdle

Step(r) == plan[r][idx[r]]

\* ------------------------------------------------------- actions

\* execute, lines 67-70: validate the plan; raise, or start the loop with an
\* empty result list and an empty output dict.
Validate(r) ==
    /\ pc[r] = "start"
    /\ LET v == _validate_plan(plan[r])
       IN  IF v.ok
           THEN /\ pc' = [pc EXCEPT ![r] = "running"]
                /\ idx' = [idx EXCEPT ![r] = 1]
                /\ raised' = raised
           ELSE /\ pc' = [pc EXCEPT ![r] = "raised"]
                /\ idx' = idx
                /\ raised' = [raised EXCEPT ![r] = <<[exc |-> v.exc, msg |-> v.msg]>>]
    /\ results' = [results EXCEPT ![r] = <<>>]
    /\ step_outputs' = [step_outputs EXCEPT ![r] = <<>>]
    /\ UNCHANGED <<plan, pending, edgar_calls, attempts>>
    /\ UNCHANGED <<libcall, libret, serviceVars, processVars>>

\* The record of an _execute_step call that is awaiting its data-source
\* call, or that ended with res.
Attempt(r, handler, awaiting, res) ==
    [step |-> idx[r],
     handler |-> handler,
     outcome |-> IF awaiting THEN "awaiting" ELSE IF res.ok THEN "returned" ELSE "raised",
     exc |-> IF awaiting \/ res.ok THEN "" ELSE res.exc,
     msg |-> IF awaiting \/ res.ok THEN <<>> ELSE res.msg]

\* A loop without the except branch: the exception of a step leaves execute.
StepFailurePropagates(r) ==
    /\ pc[r] = "running"
    /\ idx[r] <= Len(plan[r])
    /\ LET e == _execute_step(Step(r), step_outputs[r])
       IN  /\ ~e.await
           /\ ~e.res.ok
           /\ raised' = [raised EXCEPT ![r] = <<[exc |-> e.res.exc, msg |-> e.res.msg]>>]
           /\ attempts' = [attempts EXCEPT ![r] = Append(@, Attempt(r, e.handler, FALSE, e.res))]
    /\ pc' = [pc EXCEPT ![r] = "raised"]
    /\ UNCHANGED <<plan, idx, results, step_outputs, pending, edgar_calls>>
    /\ UNCHANGED <<libcall, libret, serviceVars, processVars>>

\* A loop that runs a failing step a second time before recording it.
StepRetriedOnce(r) ==
    /\ pc[r] = "running"
    /\ idx[r] <= Len(plan[r])
    /\ LET e == _execute_step(Step(r), step_outputs[r])
           retried == \E a \in 1..Len(attempts[r]) : attempts[r][a].step = idx[r]
       IN  /\ ~e.await
           /\ ~e.res.ok
           /\ attempts' = [attempts EXCEPT ![r] = Append(@, Attempt(r, e.handler, FALSE, e.res))]
           /\ IF retried
              THEN /\ results' = [results EXCEPT ![r] = Append(@, FailureResult(Step(r), e.res))]
                   /\ idx' = [idx EXCEPT ![r] = @ + 1]
              ELSE UNCHANGED <<results, idx>>
    /\ UNCHANGED <<plan, pc, step_outputs, pending, raised, edgar_calls>>
    /\ UNCHANGED <<libcall, libret, serviceVars, processVars>>

\* One iteration of the loop whose _execute_step raises without awaiting the
\* data source: the except branch records the step as failed.
StepFails(r) ==
    /\ pc[r] = "running"
    /\ idx[r] <= Len(plan[r])
    /\ LET e == _execute_step(Step(r), step_outputs[r])
       IN  /\ ~e.await
           /\ ~e.res.ok
           /\ results' = [results EXCEPT ![r] = Append(@, FailureResult(Step(r), e.res))]
           /\ attempts' = [attempts EXCEPT ![r] = Append(@, Attempt(r, e.handler, FALSE, e.res))]
    /\ idx' = [idx EXCEPT ![r] = @ + 1]
    /\ UNCHANGED <<plan, pc, step_outputs, pending, raised, edgar_calls>>
    /\ UNCHANGED <<libcall, libret, serviceVars, processVars>>

\* One iteration of the loop for a compute step whose function returns.
ComputeStepSucceeds(r) ==
    /\ pc[r] = "running"
    /\ idx[r] <= Len(plan[r])
    /\ LET e == _execute_step(Step(r), step_outputs[r])
       IN  /\ ~e.await
           /\ e.res.ok
           /\ step_outputs' =
                 [step_outputs EXCEPT ![r] = Store(@, Step(r).step_id, e.res.val)]
           /\ results' = [results EXCEPT ![r] = Append(@, SuccessResult(Step(r), e.res.val))]
           /\ attempts' = [attempts EXCEPT ![r] = Append(@, Attempt(r, e.handler, FALSE, e.res))]
    /\ idx' = [idx EXCEPT ![r] = @ + 1]
    /\ UNCHANGED <<plan, pc, pending, raised, edgar_calls>>
    /\ UNCHANGED <<libcall, libret, serviceVars, processVars>>

\* A data step reaches "await self._edgar.get_income_statement(...)".
DataStepCalls(r) ==
    /\ pc[r] = "running"
    /\ idx[r] <= Len(plan[r])
    /\ LET e == _execute_step(Step(r), step_outputs[r])
       IN  /\ e.await
           /\ pending' = [pending EXCEPT ![r] = <<e.res.val>>]
           /\ attempts' = [attempts EXCEPT ![r] = Append(@, Attempt(r, e.handler, TRUE, e.res))]
    /\ pc' = [pc EXCEPT ![r] = "awaiting"]
    /\ UNCHANGED <<plan, idx, results, step_outputs, raised, edgar_calls>>
    /\ UNCHANGED <<libcall, libret, serviceVars, processVars>>

\* An except branch that forgets the outputs stored so far when a fetch
\* fails.
FetchFailureDropsOutputs(r) ==
    /\ pc[r] = "awaiting"
    /\ \E answer \in AnswersTo(pending[r][1]) :
          LET call == pending[r][1]
              res == EdgarResult(answer, call)
          IN  /\ edgar_calls' =
                    [edgar_calls EXCEPT ![r] =
                        Append(@, [step |-> idx[r], call |-> call, answer |-> answer])]
              /\ attempts' =
                    [attempts EXCEPT ![r] =
                        [@ EXCEPT ![Len(@)] = Attempt(r, "data", FALSE, res)]]
              /\ IF res.ok
                 THEN /\ step_outputs' =
                            [step_outputs EXCEPT ![r] = Store(@, Step(r).step_id, res.val)]
                      /\ results' =
                            [results EXCEPT ![r] = Append(@, SuccessResult(Step(r), res.val))]
                 ELSE /\ step_outputs' = [step_outputs EXCEPT ![r] = <<>>]
                      /\ results' =
                            [results EXCEPT ![r] = Append(@, FailureResult(Step(r), res))]
    /\ pending' = [pending EXCEPT ![r] = <<>>]
    /\ pc' = [pc EXCEPT ![r] = "running"]
    /\ idx' = [idx EXCEPT ![r] = @ + 1]
    /\ UNCHANGED <<plan, raised>>
    /\ UNCHANGED <<libcall, libret, serviceVars, processVars>>

\* An executor whose output dict is an attribute of the executor: a
\* snapshot is stored for every run in progress.
DataStepStoresOnExecutor(r) ==
    /\ pc[r] = "awaiting"
    /\ \E answer \in AnswersTo(pending[r][1]) :
          LET call == pending[r][1]
              res == EdgarResult(answer, call)
          IN  /\ edgar_calls' =
                    [edgar_calls EXCEPT ![r] =
                        Append(@, [step |-> idx[r], call |-> call, answer |-> answer])]
              /\ attempts' =
                    [attempts EXCEPT ![r] =
                        [@ EXCEPT ![Len(@)] = Attempt(r, "data", FALSE, res)]]
              /\ IF res.ok
                 THEN /\ step_outputs' =
                            [q \in Runs |-> Store(step_outputs[q], Step(r).step_id, res.val)]
                      /\ results' =
                            [results EXCEPT ![r] = Append(@, SuccessResult(Step(r), res.val))]
                 ELSE /\ step_outputs' = step_outputs
                      /\ results' =
                            [results EXCEPT ![r] = Append(@, FailureResult(Step(r), res))]
    /\ pending' = [pending EXCEPT ![r] = <<>>]
    /\ pc' = [pc EXCEPT ![r] = "running"]
    /\ idx' = [idx EXCEPT ![r] = @ + 1]
    /\ UNCHANGED <<plan, raised>>
    /\ UNCHANGED <<libcall, libret, serviceVars, processVars>>

\* The awaited call completes with the answer of the data source: the
\* snapshot is stored and recorded, or the exception is recorded.
DataStepReturns(r) ==
    /\ pc[r] = "awaiting"
    /\ \E answer \in AnswersTo(pending[r][1]) :
          LET call == pending[r][1]
              res == EdgarResult(answer, call)
          IN  /\ edgar_calls' =
                    [edgar_calls EXCEPT ![r] =
                        Append(@, [step |-> idx[r], call |-> call, answer |-> answer])]
              /\ attempts' =
                    [attempts EXCEPT ![r] =
                        [@ EXCEPT ![Len(@)] = Attempt(r, "data", FALSE, res)]]
              /\ IF res.ok
                 THEN /\ step_outputs' =
                            [step_outputs EXCEPT ![r] = Store(@, Step(r).step_id, res.val)]
                      /\ results' =
                            [results EXCEPT ![r] = Append(@, SuccessResult(Step(r), res.val))]
                 ELSE /\ step_outputs' = step_outputs
                      /\ results' =
                            [results EXCEPT ![r] = Append(@, FailureResult(Step(r), res))]
    /\ pending' = [pending EXCEPT ![r] = <<>>]
    /\ pc' = [pc EXCEPT ![r] = "running"]
    /\ idx' = [idx EXCEPT ![r] = @ + 1]
    /\ UNCHANGED <<plan, raised>>
    /\ UNCHANGED <<libcall, libret, serviceVars, processVars>>

\* The loop is over: execute returns results.
ReturnResults(r) ==
    /\ pc[r] = "running"
    /\ idx[r] > Len(plan[r])
    /\ pc' = [pc EXCEPT ![r] = "done"]
    /\ UNCHANGED <<plan, idx, results, step_outputs, pending, raised, edgar_calls, attempts>>
    /\ UNCHANGED <<libcall, libret, serviceVars, processVars>>

\* One step of run r.
RunStep(r) ==
    \/ Validate(r)
    \/ StepFails(r)
    \/ ComputeStepSucceeds(r)
    \/ DataStepCalls(r)
    \/ DataStepReturns(r)
    \/ ReturnResults(r)

Next == \E r \in Runs : RunStep(r)

Spec == Init /\ [][Next]_vars

Finished(r) == pc[r] \in {"done", "raised"}

\* Two runs compared side by side are separate executions: the second is
\* run once the first is over.
NextPair == \E r \in Runs : (r = 1 \/ Finished(1)) /\ RunStep(r)

SpecPair == InitPair /\ [][NextPair]_vars

\* Plans given to the second of two concurrent execute calls: a margin
\* over a step 0 the plan does not have, a fetch of another period with its
\* margin, a fetch with the growth over a step 1 that is a snapshot
\* only in other plans, and a plan that names a tool outside the registry.
ConcurrentPlans ==
    {PlanOf(<<Fetch(<<"2023">>, <<>>), Tool("get_balance_sheet", <<Arg("ticker", <<"AAPL">>)>>)>>,
            "position", "none")} \cup
    {PlanOf(<<Margin(<<"$step", "0", "gross_margin">>, <<"$step", "0", "revenue">>)>>,
            "position", "none"),
     PlanOf(<<Fetch(<<"2024">>, <<Arg("quarter", <<"1">>)>>),
              Margin(<<"$step", "0", "gross_margin">>, <<"$step", "0", "revenue">>)>>,
            "position", "none"),
     PlanOf(<<Fetch(<<"2023">>, <<>>),
              Growth("compute_yoy_growth", <<"$step", "1", "revenue">>,
                     <<"$step", "0", "revenue">>)>>,
            "same", "none")}

\* Two execute calls in progress at once on one executor.
InitConcurrent ==
    /\ \E tools \in PairToolSeqs(MaxConcurrentSteps) \ {<<>>},
          id_mode \in IdModes, other \in ConcurrentPlans :
          plan = [r \in Runs |-> IF r = 1 THEN PlanOf(tools, id_mode, "none") ELSE other]
    /\ pc = [r \in Runs |-> "start"]
    /\ InitRun
    /\ libcall = NoCall
    /\ libret = <<>>
    /\ InitService
    /\ ProcessIdle

\* The calls interleave wherever one of them awaits the data source; what
\* a call does between two awaits is not interrupted.
SpecConcurrent == InitConcurrent /\ [][Next]_vars

\* ------------------------------------------------------- response formatter

\* model_dump(mode="json") of a result object: a dict of its fields, nested
\* objects dumped likewise.
model_dump(output) ==
    [key \in DOMAIN output |->
        IF key = "t" THEN "dict"
        ELSE IF output[key].t \in ObjectTypes
        THEN [k \in DOMAIN output[key] |-> IF k = "t" THEN "dict" ELSE output[key][k]]
        ELSE output[key]]

\* isinstance(value, types).
IsInstance(value, types) == value.t \in types

\* The results whose "output" is an instance of one of the types.
WithOutput(step_results, types) ==
    SelectSeq(step_results, LAMBDA result : IsInstance(Get(result, "output"), types))

\* IncomeStatementData.period_label.
period_label(output) ==
    LET m == output.metadata
    IN  IF ~Falsy(m.quarter)
        THEN FormatStr("Q{quarter} FY{fiscal_year}", <<m.quarter.n, m.fiscal_year.n>>)
        ELSE FormatStr("FY{fiscal_year}", <<m.fiscal_year.n>>)

\* The citation of one snapshot (the filing date is not modelled).
SourceCitation(output) ==
    [t |-> "SourceCitation",
     ticker |-> output.metadata.ticker,
     filing_type |-> output.metadata.filing_type,
     fiscal_period |-> period_label(output)]

\* build_citations.
build_citations(step_results) ==
    LET found == WithOutput(step_results, {"IncomeStatementData"})
    IN  [i \in 1..Len(found) |-> SourceCitation(found[i].output)]

\* build_raw_data.
build_raw_data(step_results) ==
    LET found == WithOutput(step_results, {"IncomeStatementData"})
    IN  [i \in 1..Len(found) |-> model_dump(found[i].output)]

\* A build_computations that knows growth results only.
BuildComputationsGrowthOnly(step_results) ==
    LET found == WithOutput(step_results, {"GrowthResult"})
    IN  [i \in 1..Len(found) |-> model_dump(found[i].output)]

\* build_computations.
build_computations(step_results) ==
    LET found == WithOutput(step_results,
                            {"GrowthResult", "MarginResult", "AggregationResult"})
    IN  [i \in 1..Len(found) |-> model_dump(found[i].output)]

\* The part of the AnalysisResponse that QueryPipeline.process builds from
\* the trace execute returned.
Response(step_results) ==
    [raw_data |-> build_raw_data(step_results),
     computations |-> build_computations(step_results),
     citations |-> build_citations(step_results)]

\* ------------------------------------------------------- library calls

\* The executor is not running.
ExecIdle ==
    /\ plan = [r \in Runs |-> <<>>]
    /\ pc = [r \in Runs |-> "idle"]
    /\ InitRun

execVars == <<plan, pc, idx, results, step_outputs, pending, raised, edgar_calls, attempts>>

\* A number or a word as a narration writes it: its characters, and what
\* it says (kind "amount": a currency amount or plain number of value
\* base, times the scale word when there is one; kind "percent": a signed
\* percentage of value base; kind "word": no number).
Written(tokens, kind, base, scale) ==
    [tokens |-> tokens, kind |-> kind, base |-> base, scale |-> scale]

\* Numbers small enough for the arithmetic of the match test.
VerifyItems ==
    {Written(<<"$", "1", "0", "0", ".", "0", "0">>, "amount", Dec(100, 0), ""),
     Written(<<"$", "9", "9", "9", ".", "0", "0">>, "amount", Dec(999, 0), ""),
     Written(<<"$", "1", "0", "0", ".", "0", "5">>, "amount", Dec(10005, -2), ""),
     Written(<<"0">>, "amount", Dec(0, 0), ""),
     Written(<<"$", "2", "5">>, "amount", Dec(25, 0), ""),
     Written(<<"2", " ", "THOUSAND">>, "amount", Dec(2, 0), "thousand"),
     Written(<<"1", "5", ".", "3", "%">>, "percent", Dec(153, -1), ""),
     Written(<<"-", "5", ".", "2", "%">>, "percent", Dec(-52, -1), ""),
     Written(<<"2", "0", ".", "0", "%">>, "percent", Dec(20, 0), ""),
     Written(<<"Revenue">>, "word", Dec(0, 0), "")}

AllItems ==
    VerifyItems \cup
    {Written(<<"$", "9", "0", ".", "7", "5", " ", "billion">>, "amount", Dec(9075, -2), "billion"),
     Written(<<"2", "3", "4", ".", "5", " ", "Million">>, "amount", Dec(2345, -1), "million"),
     Written(<<"$", "1", ",", "2", "3", "4", ",", "5", "6", "7">>, "amount", Dec(1234567, 0), ""),
     Written(<<"$", "6", ".", "4", "2">>, "amount", Dec(642, -2), ""),
     Written(<<"3", "trillion">>, "amount", Dec(3, 0), "trillion"),
     Written(<<"1", "\n", "mIlLiOn">>, "amount", Dec(1, 0), "million")}

\* The sequences of at most n elements of S.
RECURSIVE SeqsUpTo(_, _)
SeqsUpTo(S, n) ==
    IF n = 0 THEN {<<>>}
    ELSE LET shorter == SeqsUpTo(S, n - 1)
         IN  shorter \cup {Append(q, x) : q \in {p \in shorter : Len(p) = n - 1}, x \in S}

\* The text of a narration: its items separated by single spaces.
RECURSIVE Render(_)
Render(items) ==
    IF items = <<>> THEN <<>>
    ELSE IF Len(items) = 1 THEN items[1].tokens
    ELSE items[1].tokens \o <<" ">> \o Render(Tail(items))

\* Characters and words of the digit-free texts explored.
DigitFree == {",", ".", "$", "%", "-", " ", "and", "million"}

TruthSets ==
    {{},
     {Dec(100, 0)},
     {Dec(100, 0), Dec(25, 0), Dec(20, 0)},
     {Dec(-52, -1)},
     {Dec(153, -1), Dec(52, -1), Dec(-52, -1)},
     {Dec(0, 0)},
     {Dec(0, 0), Dec(2, 3)},
     {Dec(999, 0), Dec(10005, -2)},
     {Dec(5, 0)}}

\* 0.001 (the default), 0.01, 0 and 1.
Tolerances == {Dec(1, -3), Dec(1, -2), Dec(0, 0), Dec(1, 0)}

MatchValues ==
    {Dec(0, 0), Dec(100, 0), Dec(1001, -1), Dec(1002, -1), Dec(999, -1), Dec(101, 0),
     Dec(-52, -1), Dec(52, -1), Dec(10, 0), Dec(999, 0), Dec(2, 3), Dec(5, 0), Dec(-5, 0)}

\* Values given as the numeric arguments of the compute functions.
NumberArgs ==
    {PFloat(120 * Micro), PFloat(100 * Micro), PFloat(0), PInt(0), PFloat(-30 * Micro),
     PInt(9), PFloat(12500000), PNone, PStr(<<"abc">>)}

MetricArgs == {PStr(<<"revenue">>), PStr(<<"gross_margin">>)}

PeriodArgs == {PStr(<<"FY2024">>), PStr(<<"Q1 FY2024">>)}

\* Entries of the quarter_data lists; 0.125 and 0.375 round at a tie.
QuarterEntries ==
    {PDict(PStr(<<"Q1 FY2024">>), PFloat(100 * Micro)),
     PDict(PStr(<<"Q2 FY2024">>), PFloat(125000)),
     PDict(PStr(<<"Q3 FY2024">>), PFloat(375000)),
     PDict(PStr(<<"Q4 FY2024">>), PFloat(-30 * Micro)),
     PDict(PStr(<<"Q1 FY2023">>), PInt(3))}

MethodArgs == {PStr(<<"sum">>), PStr(<<"average">>), PStr(<<"median">>), PStr(<<"SUM">>)}

GrowthCalls ==
    {[fn |-> "compute_growth",
      args |-> [metric_name |-> metric_name, current_value |-> current_value,
                previous_value |-> previous_value, current_period |-> PStr(<<"FY2024">>),
                previous_period |-> previous_period]] :
        metric_name \in MetricArgs, current_value \in NumberArgs,
        previous_value \in NumberArgs, previous_period \in PeriodArgs}

MarginCalls ==
    {[fn |-> "compute_margin",
      args |-> [metric_name |-> metric_name, numerator |-> numerator,
                revenue |-> revenue, period |-> period]] :
        metric_name \in MetricArgs, numerator \in NumberArgs,
        revenue \in NumberArgs, period \in PeriodArgs}

AggregateCalls ==
    {[fn |-> "aggregate_quarters",
      args |-> [metric_name |-> PStr(<<"revenue">>), quarter_data |-> PList(quarter_data),
                method |-> method]] :
        quarter_data \in SeqsUpTo(QuarterEntries, MaxItems), method \in MethodArgs}
    \cup
    {[fn |-> "aggregate_quarters",
      args |-> [metric_name |-> PStr(<<"revenue">>), quarter_data |-> PList(quarter_data)]] :
        quarter_data \in SeqsUpTo(QuarterEntries, MaxItems)}

ExtractCalls ==
    {[fn |-> "extract_numbers", text |-> Render(written), written |-> written] :
        written \in SeqsUpTo(AllItems, MaxItems)}
    \cup
    {[fn |-> "extract_numbers", text |-> text, written |-> <<>>] :
        text \in SeqsUpTo(DigitFree, MaxItems)}

VerifyCalls ==
    {[fn |-> "verify_summary", summary |-> Render(written), written |-> written,
      truth_set |-> truth_set, tolerance |-> tolerance] :
        written \in SeqsUpTo(VerifyItems, MaxItems), truth_set \in TruthSets,
        tolerance \in Tolerances}

MatchCalls ==
    {[fn |-> "_matches_any", value |-> value, truth_set |-> truth_set,
      tolerance |-> tolerance] :
        value \in MatchValues, truth_set \in TruthSets, tolerance \in Tolerances}

\* Dicts given as raw data: dumps of two snapshots, and a dict that also
\* has keys read only from computations.
RawDicts ==
    {model_dump(IncomeStatementData("full", PStr(<<"AAPL">>), 2023, PNone)),
     model_dump(IncomeStatementData("sparse", PStr(<<"AAPL">>), 2024, PInt(1))),
     [t |-> "dict", revenue |-> PInt(7), fiscal_year |-> PInt(2023),
      growth_rate |-> PFloat(5 * Micro), result |-> PFloat(6 * Micro),
      values |-> PList(<<PFloat(8 * Micro)>>)]}

\* Dicts given as computations: dumps of one result of each kind, and a dict
\* that also has keys read only from raw data.
ComputationDicts ==
    {model_dump(compute_growth(
        [metric_name |-> PStr(<<"revenue">>), current_value |-> PFloat(120 * Micro),
         previous_value |-> PFloat(100 * Micro), current_period |-> PStr(<<"FY2024">>),
         previous_period |-> PStr(<<"FY2023">>)]).val),
     model_dump(compute_margin(
        [metric_name |-> PStr(<<"gross_margin">>), numerator |-> PFloat(-30 * Micro),
         revenue |-> PFloat(120 * Micro), period |-> PStr(<<"FY2024">>)]).val),
     model_dump(aggregate_quarters(
        [metric_name |-> PStr(<<"revenue">>),
         quarter_data |-> PList(<<PDict(PStr(<<"Q1 FY2024">>), PFloat(100 * Micro)),
                                  PDict(PStr(<<"Q2 FY2024">>), PFloat(125000))>>)]).val),
     [t |-> "dict", net_income |-> PFloat(77 * Micro), eps_basic |-> PFloat(9 * Micro),
      growth_rate |-> PNone, fiscal_year |-> PInt(2023),
      values |-> PList(<<PInt(4), PFloat(4500000)>>)]}

TruthSetCalls ==
    {[fn |-> "build_truth_set", raw_data |-> raw_data, computations |-> computations] :
        raw_data \in SeqsUpTo(RawDicts, MaxItems),
        computations \in SeqsUpTo(ComputationDicts, MaxItems)}

\* The length limits of ExecutionPlan.steps (models.py:115).
MinPlanLength == 1
MaxPlanLength == 10

\* PlanStep(step_id=..., tool=..., args=...): the validated step, or the
\* ValidationError of step_id (an int, ge=0).  (Values pydantic would
\* coerce to an int, such as "1" or 1.0, are not among the inputs.)
PlanStep(step_id, tool, args) ==
    IF step_id.t # "int"
    THEN Raise("ValidationError", <<"Input should be a valid integer", "step_id">>)
    ELSE IF step_id.n < 0
    THEN Raise("ValidationError",
               <<"Input should be greater than or equal to 0", "step_id">>)
    ELSE Return([step_id |-> step_id.n, tool |-> tool, args |-> args, depends_on |-> {}])

\* ExecutionPlan(steps=...): the validated plan, given as its steps, or
\* the ValidationError of the length limits.
ExecutionPlan(steps) ==
    IF Len(steps) < MinPlanLength
    THEN Raise("ValidationError", <<"List should have at least 1 item", "steps">>)
    ELSE IF Len(steps) > MaxPlanLength
    THEN Raise("ValidationError", <<"List should have at most 10 items", "steps">>)
    ELSE Return(steps)

\* Values given as step_id.
StepIdValues == {PInt(-1), PInt(0), PInt(1), PNone}

\* The step_ids of the plans constructed: every short list of values, and
\* lists at and beyond the length limit, with distinct and with equal ids.
StepIdLists ==
    SeqsUpTo(StepIdValues, MaxItems)
        \cup {[i \in 1..n |-> PInt(i - 1)] : n \in {MaxPlanLength, MaxPlanLength + 1}}
        \cup {[i \in 1..n |-> PInt(0)] : n \in {MaxPlanLength, MaxPlanLength + 1}}

PlanCalls == {[fn |-> "ExecutionPlan", step_ids |-> ids] : ids \in StepIdLists}

LibraryCalls ==
    GrowthCalls \cup MarginCalls \cup AggregateCalls \cup ExtractCalls \cup VerifyCalls
        \cup MatchCalls \cup TruthSetCalls \cup PlanCalls

\* One call of one library function, the executor not running.
InitLibrary ==
    /\ ExecIdle
    /\ libcall \in LibraryCalls
    /\ libret = <<>>
    /\ InitService
    /\ ProcessIdle

\* Each action makes the call of libcall: libret becomes what it returns or
\* raises.
CallComputeGrowth ==
    /\ libcall.fn = "compute_growth"
    /\ libret = <<>>
    /\ libret' = <<compute_growth(libcall.args)>>
    /\ UNCHANGED <<libcall, execVars, serviceVars, processVars>>

CallComputeMargin ==
    /\ libcall.fn = "compute_margin"
    /\ libret = <<>>
    /\ libret' = <<compute_margin(libcall.args)>>
    /\ UNCHANGED <<libcall, execVars, serviceVars, processVars>>

CallAggregateQuarters ==
    /\ libcall.fn = "aggregate_quarters"
    /\ libret = <<>>
    /\ libret' = <<aggregate_quarters(libcall.args)>>
    /\ UNCHANGED <<libcall, execVars, serviceVars, processVars>>

CallExtractNumbers ==
    /\ libcall.fn = "extract_numbers"
    /\ libret = <<>>
    /\ libret' = <<Return(extract_numbers(libcall.text))>>
    /\ UNCHANGED <<libcall, execVars, serviceVars, processVars>>

CallVerifySummary ==
    /\ libcall.fn = "verify_summary"
    /\ libret = <<>>
    /\ libret' = <<Return(verify_summary(libcall.summary, libcall.truth_set,
                                       libcall.tolerance))>>
    /\ UNCHANGED <<libcall, execVars, serviceVars, processVars>>

CallMatchesAny ==
    /\ libcall.fn = "_matches_any"
    /\ libret = <<>>
    /\ libret' = <<Return(_matches_any(libcall.value, libcall.truth_set,
                                      libcall.tolerance))>>
    /\ UNCHANGED <<libcall, execVars, serviceVars, processVars>>

CallBuildTruthSet ==
    /\ libcall.fn = "build_truth_set"
    /\ libret = <<>>
    /\ libret' = <<build_truth_set(libcall.raw_data, libcall.computations)>>
    /\ UNCHANGED <<libcall, execVars, serviceVars, processVars>>

\* ExecutionPlan(steps=[PlanStep(step_id=i, tool="compute_margin", args=[])
\* for i in step_ids]): the first step that does not validate raises.
CallExecutionPlan ==
    /\ libcall.fn = "ExecutionPlan"
    /\ libret = <<>>
    /\ LET ids == libcall.step_ids
           built == [i \in 1..Len(ids) |-> PlanStep(ids[i], "compute_margin", <<>>)]
           bad == {i \in 1..Len(ids) : ~built[i].ok}
       IN  libret' = <<IF bad # {}
                       THEN built[CHOOSE i \in bad : \A j \in bad : i <= j]
                       ELSE ExecutionPlan([i \in 1..Len(ids) |-> built[i].val])>>
    /\ UNCHANGED <<libcall, execVars, serviceVars, processVars>>

NextLibrary ==
    \/ CallExecutionPlan
    \/ CallComputeGrowth
    \/ CallComputeMargin
    \/ CallAggregateQuarters
    \/ CallExtractNumbers
    \/ CallVerifySummary
    \/ CallMatchesAny
    \/ CallBuildTruthSet

SpecLibrary == InitLibrary /\ [][NextLibrary]_vars

\* The library call has been made and returned (did not raise).
Returned(fn) ==
    /\ libcall.fn = fn
    /\ libret # <<>>
    /\ libret[1].ok

\* ------------------------------------------------------- chat endpoint

\* The length of the rate-limit window (api/chat.py:25), and the seconds
\* that pass between two moments the clock is read at: half a window, so
\* that a hit is seen inside the window and exactly at its start.
WindowSeconds == 60
TickSeconds == 30

\* The client addresses requests come from.
Clients == {"10.0.0.1", "10.0.0.2"}

\* What the conversation runner makes the handler answer: the response, or
\* the HTTP error a raised exception is mapped to (api/chat.py:55-66).
RunnerStatuses == {"200", "404", "422"}

\* A rate check that records the hit before it compares.
CheckRateLimitRecordsFirst(ip, max_per_minute, rate_state, t) ==
    LET window_start == t - WindowSeconds
        stored == IF ip \in DOMAIN rate_state THEN rate_state[ip] ELSE <<>>
        hits == Append(SelectSeq(stored, LAMBDA h : h > window_start), t)
    IN  IF Len(hits) > max_per_minute
        THEN [ok |-> FALSE, exc |-> "HTTPException", status |-> "429",
              rate_state |-> Store(rate_state, ip, hits)]
        ELSE [ok |-> TRUE, rate_state |-> Store(rate_state, ip, hits)]

\* _check_rate_limit at time t: the HTTPException it raises, or None, and
\* _rate_state as the call leaves it.
_check_rate_limit(ip, max_per_minute, rate_state, t) ==
    LET window_start == t - WindowSeconds
        stored == IF ip \in DOMAIN rate_state THEN rate_state[ip] ELSE <<>>
        hits == SelectSeq(stored, LAMBDA h : h > window_start)
    IN  IF Len(hits) >= max_per_minute
        THEN [ok |-> FALSE, exc |-> "HTTPException", status |-> "429",
              rate_state |-> rate_state]
        ELSE [ok |-> TRUE, rate_state |-> Store(rate_state, ip, Append(hits, t))]

InitRateLimit ==
    /\ ExecIdle
    /\ libcall = NoCall
    /\ libret = <<>>
    /\ InitService
    /\ ProcessIdle

\* chat, up to "await run_conversation(...)": the rate check raises, or the
\* sanitized message is handed to the conversation runner.
Chat(ip) ==
    /\ Len(chat_log) < MaxRequests
    /\ LET checked == _check_rate_limit(ip, MaxPerMinute, _rate_state, now)
       IN  /\ _rate_state' = checked.rate_state
           /\ chat_log' = Append(chat_log,
                              [ip |-> ip, at |-> now,
                               status |-> IF checked.ok THEN "running" ELSE checked.status])
    /\ UNCHANGED <<now, _store>>
    /\ UNCHANGED <<execVars, libcall, libret, processVars>>

\* chat, from the return of run_conversation: the answer, or the HTTP
\* error of the exception it raised.
ConversationReturns(i) ==
    /\ chat_log[i].status = "running"
    /\ \E status \in RunnerStatuses :
          chat_log' = [chat_log EXCEPT ![i].status = status]
    /\ UNCHANGED <<now, _rate_state, _store>>
    /\ UNCHANGED <<execVars, libcall, libret, processVars>>

\* Time passes.
Tick ==
    /\ now < MaxTicks * TickSeconds
    /\ now' = now + TickSeconds
    /\ UNCHANGED <<_rate_state, chat_log, _store>>
    /\ UNCHANGED <<execVars, libcall, libret, processVars>>

NextRateLimit ==
    \/ \E ip \in Clients : Chat(ip)
    \/ \E i \in 1..Len(chat_log) : ConversationReturns(i)
    \/ Tick

SpecRateLimit == InitRateLimit /\ [][NextRateLimit]_vars

\* ------------------------------------------------------- data client

\* The time a cache entry lives (EdgarClient cache_ttl, sec/client.py:19),
\* and the seconds that pass between two moments the clock is read at: as
\* many, so that an entry is looked up at an age below, equal to and above
\* the time it lives.
CacheTtlSeconds == 900
WaitSeconds == 900

\* cache_key = f"income:{ticker}:{fiscal_year}:{quarter}": the prefix and
\* the three values formatted into it.
CacheKey(call) == <<"income", call.ticker, call.fiscal_year, call.quarter>>

\* A lookup that returns an entry whatever its age.
TTLCacheGetNeverExpires(store, key, t) ==
    IF key \notin DOMAIN store THEN [found |-> <<>>, store |-> store]
    ELSE [found |-> <<store[key].value>>, store |-> store]

\* TTLCache.get at time t: the value found, as a list (empty for None), and
\* _store as the call leaves it.
TTLCacheGet(store, key, t) ==
    IF key \notin DOMAIN store THEN [found |-> <<>>, store |-> store]
    ELSE IF t - store[key].ts > CacheTtlSeconds
    THEN [found |-> <<>>, store |-> [k \in DOMAIN store \ {key} |-> store[k]]]
    ELSE [found |-> <<store[key].value>>, store |-> store]

\* TTLCache.set at time t.
TTLCacheSet(store, key, value, t) == Store(store, key, [ts |-> t, value |-> value])

\* Steps of the plans run against the caching client: the fetches of two
\* periods.
ClientSteps ==
    {Fetch(<<"2023">>, <<>>),
     Fetch(<<"2024">>, <<Arg("quarter", <<"1">>)>>)}

RECURSIVE ClientToolSeqs(_)
ClientToolSeqs(n) ==
    IF n = 0 THEN {<<>>}
    ELSE LET shorter == ClientToolSeqs(n - 1)
         IN  shorter \cup {Append(p, c) : p \in {q \in shorter : Len(q) = n - 1},
                                          c \in ClientSteps}

\* The plan of the second of two requests served by one client: a fetch
\* with its margin.
SecondRequestPlans ==
    {PlanOf(<<Fetch(<<"2023">>, <<>>),
              Margin(<<"$step", "0", "gross_margin">>, <<"$step", "0", "revenue">>)>>,
            "position", "none")}

\* Two execute calls on an executor whose data client has an empty cache.
InitClient ==
    /\ \E tools \in ClientToolSeqs(MaxConcurrentSteps) \ {<<>>},
          other \in SecondRequestPlans :
          plan = [r \in Runs |-> IF r = 1 THEN PlanOf(tools, "position", "none") ELSE other]
    /\ pc = [r \in Runs |-> "start"]
    /\ InitRun
    /\ libcall = NoCall
    /\ libret = <<>>
    /\ InitService
    /\ ProcessIdle

\* The record of a get_income_statement call that returned or raised: the
\* step, the call, where the result came from ("cache" or "fetch"), the
\* answer of the source (for a cached snapshot, the answer it came with),
\* the time of the return and the time of the cache entry read or written.
ClientCall(r, call, source, answer, ts) ==
    [step |-> idx[r], call |-> call, source |-> source, answer |-> answer,
     at |-> now, stored_at |-> ts]

\* A data step whose snapshot is in the cache: get_income_statement returns
\* it without awaiting anything (sec/client.py:47-50), and the loop records
\* the step.
DataStepCached(r) ==
    /\ pc[r] = "running"
    /\ idx[r] <= Len(plan[r])
    /\ LET e == _execute_step(Step(r), step_outputs[r])
           call == e.res.val
           got == TTLCacheGet(_store, CacheKey(call), now)
       IN  /\ e.await
           /\ got.found # <<>>
           /\ _store' = got.store
           /\ step_outputs' =
                 [step_outputs EXCEPT ![r] = Store(@, Step(r).step_id, got.found[1])]
           /\ results' =
                 [results EXCEPT ![r] = Append(@, SuccessResult(Step(r), got.found[1]))]
           /\ attempts' =
                 [attempts EXCEPT ![r] =
                     Append(@, Attempt(r, "data", FALSE, Return(got.found[1])))]
           /\ edgar_calls' =
                 [edgar_calls EXCEPT ![r] =
                     Append(@, ClientCall(r, call, "cache",
                                          CHOOSE a \in {"full", "sparse"} :
                                              EdgarResult(a, call).val = got.found[1],
                                          _store[CacheKey(call)].ts))]
    /\ idx' = [idx EXCEPT ![r] = @ + 1]
    /\ UNCHANGED <<plan, pc, pending, raised>>
    /\ UNCHANGED <<now, _rate_state, chat_log>>
    /\ UNCHANGED <<libcall, libret, processVars>>

\* A data step whose snapshot is not in the cache, or is there but older
\* than the cache lets it live (and is deleted): get_income_statement
\* awaits the fetch (sec/client.py:52-54).
DataStepFetches(r) ==
    /\ pc[r] = "running"
    /\ idx[r] <= Len(plan[r])
    /\ LET e == _execute_step(Step(r), step_outputs[r])
           call == e.res.val
           got == TTLCacheGet(_store, CacheKey(call), now)
       IN  /\ e.await
           /\ got.found = <<>>
           /\ _store' = got.store
           /\ pending' = [pending EXCEPT ![r] = <<call>>]
           /\ attempts' = [attempts EXCEPT ![r] = Append(@, Attempt(r, e.handler, TRUE, e.res))]
    /\ pc' = [pc EXCEPT ![r] = "awaiting"]
    /\ UNCHANGED <<plan, idx, results, step_outputs, raised, edgar_calls>>
    /\ UNCHANGED <<now, _rate_state, chat_log>>
    /\ UNCHANGED <<libcall, libret, processVars>>

\* A cancellation that arrives after the snapshot was put in the cache.
CancelAfterCacheSet(r) ==
    /\ pc[r] = "awaiting"
    /\ \E answer \in {"full", "sparse"} \cap AnswersTo(pending[r][1]) :
          _store' = TTLCacheSet(_store, CacheKey(pending[r][1]),
                                EdgarResult(answer, pending[r][1]).val, now)
    /\ pc' = [pc EXCEPT ![r] = "cancelled"]
    /\ raised' = [raised EXCEPT ![r] = <<[exc |-> "CancelledError", msg |-> <<>>]>>]
    /\ UNCHANGED <<plan, idx, results, step_outputs, pending, edgar_calls, attempts>>
    /\ UNCHANGED <<now, _rate_state, chat_log>>
    /\ UNCHANGED <<libcall, libret, processVars>>

\* The awaited fetch completes: the snapshot is put in the cache and the
\* step recorded succeeded (sec/client.py:54-56), or the exception of
\* the fetch is recorded and nothing is put in the cache.
FetchReturns(r) ==
    /\ pc[r] = "awaiting"
    /\ \E answer \in AnswersTo(pending[r][1]) :
          LET call == pending[r][1]
              res == EdgarResult(answer, call)
          IN  /\ edgar_calls' =
                    [edgar_calls EXCEPT ![r] =
                        Append(@, ClientCall(r, call, "fetch", answer, now))]
              /\ attempts' =
                    [attempts EXCEPT ![r] =
                        [@ EXCEPT ![Len(@)] = Attempt(r, "data", FALSE, res)]]
              /\ IF res.ok
                 THEN /\ _store' = TTLCacheSet(_store, CacheKey(call), res.val, now)
                      /\ step_outputs' =
                            [step_outputs EXCEPT ![r] = Store(@, Step(r).step_id, res.val)]
                      /\ results' =
                            [results EXCEPT ![r] = Append(@, SuccessResult(Step(r), res.val))]
                 ELSE /\ _store' = _store
                      /\ step_outputs' = step_outputs
                      /\ results' =
                            [results EXCEPT ![r] = Append(@, FailureResult(Step(r), res))]
    /\ pending' = [pending EXCEPT ![r] = <<>>]
    /\ pc' = [pc EXCEPT ![r] = "running"]
    /\ idx' = [idx EXCEPT ![r] = @ + 1]
    /\ UNCHANGED <<plan, raised>>
    /\ UNCHANGED <<now, _rate_state, chat_log>>
    /\ UNCHANGED <<libcall, libret, processVars>>

\* The request is cancelled while execute awaits the fetch: CancelledError
\* is raised at the await, passes the "except Exception" of the loop and
\* leaves execute; the lines after the await in get_income_statement do
\* not run.
Cancel(r) ==
    /\ pc[r] = "awaiting"
    /\ pc' = [pc EXCEPT ![r] = "cancelled"]
    /\ raised' = [raised EXCEPT ![r] = <<[exc |-> "CancelledError", msg |-> <<>>]>>]
    /\ UNCHANGED <<plan, idx, results, step_outputs, pending, edgar_calls, attempts>>
    /\ UNCHANGED serviceVars
    /\ UNCHANGED <<libcall, libret, processVars>>

\* Time passes.
Wait ==
    /\ now < MaxWaits * WaitSeconds
    /\ now' = now + WaitSeconds
    /\ UNCHANGED <<_rate_state, chat_log, _store>>
    /\ UNCHANGED <<execVars, libcall, libret, processVars>>

\* No call other than r is between two awaits.
LoopFree(r) == \A q \in Runs \ {r} : pc[q] # "running"

\* One event loop runs the calls: a call that is not awaiting the fetch
\* runs on to its next await or to its end before another call takes a
\* step, and in a time too short for the clock to advance.
NextClient ==
    \/ \E r \in Runs :
          /\ LoopFree(r)
          /\ \/ Validate(r)
             \/ StepFails(r)
             \/ ComputeStepSucceeds(r)
             \/ DataStepCached(r)
             \/ DataStepFetches(r)
             \/ FetchReturns(r)
             \/ Cancel(r)
             \/ ReturnResults(r)
    \/ (\A r \in Runs : pc[r] # "running") /\ Wait

SpecClient == InitClient /\ [][NextClient]_vars

\* ------------------------------------------------------- query pipeline

\* QueryType.
QueryTypes == {"direct_retrieval", "growth_comparison", "time_series"}

\* {"period": ..., "value": ...} of a snapshot, when it has the metric.
SnapshotPoint(metric, output) ==
    LET value == get_metric(output, metric)
    IN  IF value = PNone THEN <<>> ELSE <<PDict(period_label(output), value)>>

\* The dict _format_comparison builds from a GrowthResult.
GrowthPoint(output) ==
    [t |-> "dict",
     period |-> output.current_period,
     value |-> output.current_value,
     previous_period |-> output.previous_period,
     previous_value |-> output.previous_value,
     growth_percentage |-> output.growth_percentage,
     formula |-> output.formula]

\* zip(output.periods, output.values) of an AggregationResult.
AggregationPoints(output) ==
    LET n == IF Len(output.periods.items) < Len(output.values.items)
             THEN Len(output.periods.items) ELSE Len(output.values.items)
    IN  [i \in 1..n |-> PDict(output.periods.items[i], output.values.items[i])]

RECURSIVE VisualizationData(_, _, _)
\* The data list the formatter of a query type collects over the trace.
VisualizationData(query_type, metric, step_results) ==
    IF step_results = <<>> THEN <<>>
    ELSE LET output == Get(Head(step_results), "output")
             rest == VisualizationData(query_type, metric, Tail(step_results))
         IN  IF output.t = "IncomeStatementData"
             THEN SnapshotPoint(metric, output) \o rest
             ELSE IF output.t = "GrowthResult" /\ query_type = "growth_comparison"
             THEN <<GrowthPoint(output)>> \o rest
             ELSE IF output.t = "AggregationResult" /\ query_type = "time_series"
             THEN AggregationPoints(output) \o rest
             ELSE rest

\* format_visualization: a VisualizationPayload, or None when there is no
\* data to show.
format_visualization(query_type, metric, step_results) ==
    LET data == VisualizationData(query_type, metric, step_results)
        chart_type == CASE query_type = "direct_retrieval" -> "single_value"
                        [] query_type = "growth_comparison" -> "comparison"
                        [] query_type = "time_series" -> "timeseries"
                        [] OTHER -> ""
    IN  IF chart_type = "" \/ data = <<>> THEN PNone
        ELSE [t |-> "VisualizationPayload", chart_type |-> chart_type,
              metric |-> metric, data |-> data]

\* GuardrailInfo.
GuardrailInfo(llm_computed_math, unverified_numbers) ==
    [llm_computed_math |-> llm_computed_math, unverified_numbers |-> unverified_numbers]

\* AnalysisResponse.
AnalysisResponse(raw_data, computations, summary, citations, visualization, guardrails, needs_clarification, follow_up_question) ==
    [raw_data |-> raw_data,
     computations |-> computations,
     summary |-> summary,
     citations |-> citations,
     visualization |-> visualization,
     guardrails |-> guardrails,
     needs_clarification |-> needs_clarification,
     follow_up_question |-> follow_up_question]

\* AnalysisResponse(needs_clarification=True, follow_up_question=...): every
\* other field has its default.
ClarificationNeeded(follow_up_question) ==
    AnalysisResponse(<<>>, <<>>, <<>>, <<>>, PNone, GuardrailInfo(FALSE, <<>>),
                     TRUE, follow_up_question)

\* The default tolerance of verify_summary, 0.001.
DefaultTolerance == Dec(1, -3)

\* ClarifiedQuery: what process reads of it is the query type and the first
\* metric.
ClarifiedQueries ==
    {[t |-> "ClarifiedQuery", query_type |-> query_type, metric |-> metric] :
        query_type \in QueryTypes, metric \in {"revenue", "eps"}}

\* ClarificationResponse: a follow-up question (which may be missing), a
\* clarified query, or neither.
ClarificationResponses ==
    {[needs_clarification |-> TRUE, follow_up_question |-> q, clarified_query |-> PNone] :
        q \in {PStr(<<"Which fiscal year?">>), PNone}}
    \cup {[needs_clarification |-> FALSE, follow_up_question |-> PNone,
           clarified_query |-> c] : c \in ClarifiedQueries \cup {PNone}}

\* What an agent gives back to process: a value, or the LLMError its
\* implementation raises when the model call fails.
AgentFailed == Raise("LLMError", <<"agent failed">>)

\* The plans the planner returns: one or more steps out of two fetches, a
\* margin, a growth and a tool outside the registry.
PipelinePlans ==
    {PlanOf(tools, "position", "none") : tools \in CorePrefixes(MaxPipelineSteps) \ {<<>>}}

\* The narrations the summarizer returns: nothing, the revenue of the 2023
\* snapshot, and two figures no snapshot has.
PipelineSummaries ==
    {<<>>,
     <<"$", "1", "0", "0", ".", "0", "0">>,
     <<"$", "9", "9", "9", ".", "0", "0", " ", "1", "5", ".", "3", "%">>}

\* An awaited call of a collaborator by process, and the call once it has
\* returned or raised.
Invoked(to, arg) == [to |-> to, arg |-> arg, ret |-> <<>>]

Answered(call, res) == [call EXCEPT !.ret = <<res>>]

\* calls with the pending (last) call answered.
LastAnswered(res) == [calls EXCEPT ![Len(calls)] = Answered(@, res)]

\* A pipeline whose executor has not been called and that has not been
\* asked anything.
InitPipeline ==
    /\ ExecIdle
    /\ libcall = NoCall
    /\ libret = <<>>
    /\ InitService
    /\ ProcessIdle

\* process is called and awaits the clarifier (pipeline.py:203-205).
ProcessCalled ==
    /\ proc = "idle"
    /\ proc' = "clarify"
    /\ calls' = <<Invoked("clarifier", "query")>>
    /\ UNCHANGED <<process_ret, execVars, libcall, libret, serviceVars>>

\* The clarifier returns or raises: process returns the follow-up question,
\* fails the assertion on a missing clarified query, or goes on to await
\* the planner (pipeline.py:205-217).
ClarifierReturns ==
    /\ proc = "clarify"
    /\ \E res \in {Return(c) : c \in ClarificationResponses} \cup {AgentFailed} :
          IF ~res.ok
          THEN /\ proc' = "raised"
               /\ process_ret' = <<res>>
               /\ calls' = LastAnswered(res)
          ELSE IF res.val.needs_clarification
          THEN /\ proc' = "returned"
               /\ process_ret' = <<Return(ClarificationNeeded(res.val.follow_up_question))>>
               /\ calls' = LastAnswered(res)
          ELSE IF res.val.clarified_query = PNone
          THEN /\ proc' = "raised"
               /\ process_ret' = <<Raise("AssertionError", <<>>)>>
               /\ calls' = LastAnswered(res)
          ELSE /\ proc' = "plan"
               /\ process_ret' = process_ret
               /\ calls' = Append(LastAnswered(res),
                                  Invoked("planner", res.val.clarified_query))
    /\ UNCHANGED <<execVars, libcall, libret, serviceVars>>

\* The planner returns a plan or raises: process hands the plan to execute
\* (pipeline.py:217-221).
PlannerReturns ==
    /\ proc = "plan"
    /\ \E res \in {Return(p) : p \in PipelinePlans} \cup {AgentFailed} :
          IF ~res.ok
          THEN /\ proc' = "raised"
               /\ process_ret' = <<res>>
               /\ calls' = LastAnswered(res)
               /\ UNCHANGED <<plan, pc>>
          ELSE /\ proc' = "execute"
               /\ process_ret' = process_ret
               /\ calls' = Append(LastAnswered(res), Invoked("executor", res.val))
               /\ plan' = [plan EXCEPT ![1] = res.val]
               /\ pc' = [pc EXCEPT ![1] = "start"]
    /\ UNCHANGED <<idx, results, step_outputs, pending, raised, edgar_calls, attempts>>
    /\ UNCHANGED <<libcall, libret, serviceVars>>

\* execute runs while process awaits it.
ExecutorSteps ==
    /\ proc = "execute"
    /\ RunStep(1)

\* execute raised: nothing in process catches it (pipeline.py:221).
ExecuteRaises ==
    /\ proc = "execute"
    /\ pc[1] = "raised"
    /\ proc' = "raised"
    /\ calls' = LastAnswered(Raise(raised[1][1].exc, raised[1][1].msg))
    /\ process_ret' = <<Raise(raised[1][1].exc, raised[1][1].msg)>>
    /\ UNCHANGED <<execVars, libcall, libret, serviceVars>>

\* execute returned its trace: process builds the structured part of the
\* response and awaits the summarizer (pipeline.py:221-232).
ExecuteReturns ==
    /\ proc = "execute"
    /\ pc[1] = "done"
    /\ proc' = "summarize"
    /\ calls' = Append(LastAnswered(Return(results[1])),
                       Invoked("summarizer",
                               <<build_raw_data(results[1]), build_computations(results[1])>>))
    /\ process_ret' = process_ret
    /\ UNCHANGED <<execVars, libcall, libret, serviceVars>>

\* The clarified query process was given by the clarifier.
Clarified == calls[1].ret[1].val.clarified_query

\* The summarizer returns a narration or raises: process verifies the
\* narration against the truth set and returns the response
\* (pipeline.py:232-248).
SummarizerReturns ==
    /\ proc = "summarize"
    /\ \E res \in {Return(text) : text \in PipelineSummaries} \cup {AgentFailed} :
          LET step_results == results[1]
              built == Response(step_results)
              visualization == format_visualization(Clarified.query_type, Clarified.metric,
                                                    step_results)
              truth_set == build_truth_set(built.raw_data, built.computations)
              unverified == verify_summary(res.val, truth_set.val, DefaultTolerance)
          IN  IF ~res.ok
              THEN /\ proc' = "raised"
                   /\ process_ret' = <<res>>
                   /\ calls' = LastAnswered(res)
              ELSE IF ~truth_set.ok
              THEN /\ proc' = "raised"
                   /\ process_ret' = <<truth_set>>
                   /\ calls' = LastAnswered(res)
              ELSE /\ proc' = "returned"
                   /\ process_ret' =
                         <<Return(AnalysisResponse(built.raw_data, built.computations,
                                                   res.val, built.citations, visualization,
                                                   GuardrailInfo(FALSE, unverified),
                                                   FALSE, PNone))>>
                   /\ calls' = Append(LastAnswered(res),
                                      Answered(Invoked("verifier", res.val),
                                               Return(unverified)))
    /\ UNCHANGED <<execVars, libcall, libret, serviceVars>>

NextPipeline ==
    \/ ProcessCalled
    \/ ClarifierReturns
    \/ PlannerReturns
    \/ ExecutorSteps
    \/ ExecuteRaises
    \/ ExecuteReturns
    \/ SummarizerReturns

SpecPipeline == InitPipeline /\ [][NextPipeline]_vars

\* execute can take a step.
ExecuteRuns == proc = "execute" /\ pc[1] \in {"start", "running", "awaiting"}

\* Every collaborator process awaits answers in the end, and the event
\* loop resumes a coroutine whose await has an answer: each step of
\* process is weakly fair, and so are the steps of execute (their weak
\* fairness is written out with the states in which execute can step).
FairSpecPipeline ==
    /\ SpecPipeline
    /\ WF_vars(ProcessCalled)
    /\ WF_vars(ClarifierReturns)
    /\ WF_vars(PlannerReturns)
    /\ WF_vars(ExecuteRaises)
    /\ WF_vars(ExecuteReturns)
    /\ WF_vars(SummarizerReturns)
    /\ ([]<>(~ExecuteRuns) \/ []<><<ExecutorSteps>>_vars)

\* ------------------------------------------------------- properties

\* The closed tool registry the executor is documented to accept.
KnownToolSet ==
    {"get_income_statement", "compute_yoy_growth", "compute_qoq_growth",
     "compute_margin", "aggregate_quarters"}

Started(r) == pc[r] \notin {"idle", "start"}

HasUnknownTool(r) == \E i \in 1..Len(plan[r]) : plan[r][i].tool \notin KnownToolSet

\* C1: when any step of the plan, at any position, names a tool outside the
\* known tool set, execute raises to its caller before any step runs: no
\* StepResult, no data-source call, no handler or compute call, no stored
\* output, also for valid steps listed before the unknown one.
C1_UnknownToolRejectsPlan ==
    \A r \in Runs :
        (Started(r) /\ HasUnknownTool(r)) =>
            /\ pc[r] = "raised"
            /\ raised[r] # <<>>
            /\ raised[r][1].msg[1] = "Unknown tool in plan"
            /\ results[r] = <<>>
            /\ attempts[r] = <<>>
            /\ edgar_calls[r] = <<>>
            /\ pending[r] = <<>>
            /\ DOMAIN step_outputs[r] = {}

\* A plan whose unknown tool follows a valid step has been rejected.
C1_Witness ==
    /\ pc[1] = "raised"
    /\ \E i, j \in 1..Len(plan[1]) :
          /\ i < j
          /\ plan[1][i].tool \in KnownToolSet
          /\ plan[1][j].tool \notin KnownToolSet

NotFoundErrors == {"CompanyNotFoundError", "FilingNotFoundError"}

\* C2: a plan that passes tool validation never makes execute raise: every
\* exception of a step (argument resolution, compute function, data source,
\* company-not-found and filing-not-found included) is that step's StepResult
\* with success = false and the exception's message, and a run that is over
\* has one StepResult per step.
C2_StepFailuresAreRecorded ==
    \A r \in Runs :
        (Started(r) /\ ~HasUnknownTool(r)) =>
            /\ pc[r] # "raised"
            /\ raised[r] = <<>>
            /\ \A k \in 1..Len(attempts[r]) :
                  attempts[r][k].outcome = "raised" =>
                      /\ k <= Len(results[r])
                      /\ results[r][k] =
                            [step_id |-> plan[r][attempts[r][k].step].step_id,
                             tool |-> plan[r][attempts[r][k].step].tool,
                             success |-> FALSE,
                             error |-> attempts[r][k].msg]
            /\ \A c \in 1..Len(edgar_calls[r]) :
                  edgar_calls[r][c].answer \in NotFoundErrors =>
                      /\ attempts[r][edgar_calls[r][c].step].exc = edgar_calls[r][c].answer
                      /\ ~results[r][edgar_calls[r][c].step].success
            /\ pc[r] = "done" => Len(results[r]) = Len(plan[r])

\* A run has returned its trace after a data-source error in one step and an
\* exception of a compute function in another.
C2_Witness ==
    /\ pc[1] = "done"
    /\ \E k \in 1..Len(attempts[1]) : attempts[1][k].exc \in NotFoundErrors
    /\ \E k \in 1..Len(attempts[1]) :
          attempts[1][k].handler = "compute" /\ attempts[1][k].outcome = "raised"
    /\ \E k \in 1..Len(attempts[1]) :
          attempts[1][k].handler = "none" /\ attempts[1][k].outcome = "raised"

\* The effective arguments of a step, by name.
ArgOf(step, name) == ArgsDict(step.args)[name]

ArgNames(step) == DOMAIN ArgsDict(step.args)

\* A reference "$step:N:<field>..." with an integer N.
WellFormedRef(parts) ==
    IsReference(parts) /\ Len(parts) >= 3 /\ parts[2] \in IntLiterals

RefId(parts) == IntOfLiteral(parts[2])

\* An earlier step of the list with this id has succeeded.
SucceededBefore(r, k, id) ==
    \E j \in 1..(k - 1) : plan[r][j].step_id = id /\ results[r][j].success

\* The references of step k to a step id for which no earlier step has
\* succeeded (it failed, has not run yet, or does not exist).
Dangling(r, k) ==
    {v \in {ArgOf(plan[r][k], n) : n \in ArgNames(plan[r][k])} :
        WellFormedRef(v) /\ ~SucceededBefore(r, k, RefId(v))}

\* The first argument, in argument order, that is a reference.
FirstReference(step) ==
    LET keys == KeyOrder(step.args)
        refs == {i \in 1..Len(keys) : IsReference(ArgOf(step, keys[i]))}
    IN  ArgOf(step, keys[CHOOSE i \in refs : \A j \in refs : i <= j])

NoCallFor(r, k) == \A c \in 1..Len(edgar_calls[r]) : edgar_calls[r][c].step # k

NotInvoked(r, k) == attempts[r][k].handler = "none" /\ NoCallFor(r, k)

StepNotFound(r, k, ref) ==
    /\ results[r][k].error[1] = "Step output not found for reference"
    /\ results[r][k].error[2] = ToString(RefId(ref))

AnswerAt(r, k) ==
    LET cs == {c \in 1..Len(edgar_calls[r]) : edgar_calls[r][c].step = k}
    IN  IF cs = {} THEN "" ELSE edgar_calls[r][CHOOSE c \in cs : TRUE].answer

\* The step ids the arguments of a step refer to.
RefIds(step) ==
    {RefId(ArgOf(step, n)) : n \in {m \in ArgNames(step) : WellFormedRef(ArgOf(step, m))}}

\* The positions the step at position k depends on: itself, the earlier
\* steps whose id it references, and the positions these depend on.
RECURSIVE Closure(_, _)
Closure(p, k) ==
    {k} \cup UNION {Closure(p, j) : j \in {i \in 1..(k - 1) : p[i].step_id \in RefIds(p[k])}}

Recorded(r, k) == k <= Len(results[r])

\* C4: the recorded outcome of a step is a function of its arguments, the
\* outputs of the steps it references and the data source's answers to
\* them: two runs of one plan in which the data source answered alike to the
\* step and to every step it references, directly or through others, record
\* the same result for it, whatever became of the other steps; and a fetch
\* the data source answers with a snapshot is recorded succeeded.
C4_OutcomeIndependentOfUnreferencedSteps ==
    /\ \A k \in 1..Len(plan[1]) :
          (/\ Recorded(1, k)
           /\ Recorded(2, k)
           /\ \A j \in Closure(plan[1], k) : AnswerAt(1, j) = AnswerAt(2, j))
          => results[1][k] = results[2][k]
    /\ \A r \in Runs : \A k \in 1..Len(results[r]) :
          AnswerAt(r, k) \in {"full", "sparse"} =>
              /\ results[r][k].success
              /\ results[r][k].output =
                    EdgarResult(AnswerAt(r, k),
                                edgar_calls[r][CHOOSE c \in 1..Len(edgar_calls[r]) :
                                                  edgar_calls[r][c].step = k].call).val

\* A step succeeds in both runs with the same result although an earlier
\* step it does not depend on failed in the first run and succeeded in the
\* second, and it depends on a step other than itself.
C4_Witness ==
    \E j, k \in 1..Len(plan[1]) :
        /\ j < k
        /\ Recorded(1, k) /\ Recorded(2, k)
        /\ j \notin Closure(plan[1], k)
        /\ Closure(plan[1], k) # {k}
        /\ ~results[1][j].success
        /\ results[2][j].success
        /\ results[1][k].success
        /\ results[1][k] = results[2][k]

SameAnswers == \A k \in 1..Len(plan[1]) : AnswerAt(1, k) = AnswerAt(2, k)

\* The references of the step at position k to an id that only steps listed
\* after it carry.
ForwardRefs(r, k) ==
    {v \in {ArgOf(plan[r][k], n) : n \in ArgNames(plan[r][k])} :
        /\ WellFormedRef(v)
        /\ \E j \in (k + 1)..Len(plan[r]) : plan[r][j].step_id = RefId(v)
        /\ \A j \in 1..(k - 1) : plan[r][j].step_id # RefId(v)}

\* C5: steps are attempted in list order, one at a time; two runs of plans
\* that differ only in depends_on, answered alike by the data source,
\* return identical traces; a step that references a step listed after it
\* is recorded failed, also when its depends_on names that step.
C5_ListOrderAndInertDependsOn ==
    /\ \A r \in Runs :
          /\ \A a \in 1..Len(attempts[r]) : attempts[r][a].step = a
          /\ Len(results[r]) <= Len(attempts[r])
          /\ Len(attempts[r]) <= Len(results[r]) + 1
          /\ Len(pending[r]) <= 1
          /\ pc[r] \in {"running", "awaiting"} => idx[r] = Len(results[r]) + 1
    /\ (pc[1] = "done" /\ pc[2] = "done" /\ SameAnswers) => results[1] = results[2]
    /\ \A r \in Runs : \A k \in 1..Len(results[r]) :
          ForwardRefs(r, k) # {} => ~results[r][k].success

\* Both runs are over, the second plan names every step id in every
\* depends_on, the traces are equal with a succeeded step that references
\* an earlier one, and a step whose depends_on names the later step it
\* references is recorded failed.
C5_Witness ==
    /\ pc[1] = "done" /\ pc[2] = "done"
    /\ results[1] = results[2]
    /\ \E k \in 1..Len(plan[2]) :
          /\ ForwardRefs(2, k) # {}
          /\ RefIds(plan[2][k]) \subseteq plan[2][k].depends_on
          /\ ~results[2][k].success
    /\ \E k \in 1..Len(plan[2]) :
          /\ results[2][k].success
          /\ Closure(plan[2], k) # {k}
          /\ plan[2][k].depends_on # {}

\* C6: the trace execute returns has one StepResult per plan step, in plan
\* order, with that step's step_id and tool; a StepResult has success = true
\* with an output and no error, or success = false with a non-empty error
\* message and no output.
C6_TraceShape ==
    \A r \in Runs :
        /\ pc[r] = "done" => Len(results[r]) = Len(plan[r])
        /\ \A k \in 1..Len(results[r]) :
              /\ results[r][k].step_id = plan[r][k].step_id
              /\ results[r][k].tool = plan[r][k].tool
              /\ \/ /\ DOMAIN results[r][k] = {"step_id", "tool", "success", "output"}
                    /\ results[r][k].success = TRUE
                 \/ /\ DOMAIN results[r][k] = {"step_id", "tool", "success", "error"}
                    /\ results[r][k].success = FALSE
                    /\ results[r][k].error # <<>>

\* execute returned a trace of three results that holds a success and a
\* failure.
C6_Witness ==
    /\ pc[1] = "done"
    /\ Len(results[1]) = 3
    /\ \E j, k \in 1..3 : results[1][j].success /\ ~results[1][k].success

\* The field each name of the semantic metric accessor stands for.
MetricField ==
    [revenue |-> "revenue", net_income |-> "net_income", eps |-> "eps_diluted",
     gross_margin |-> "gross_profit", operating_income |-> "operating_income"]

\* What one hop of a field path is documented to yield: on a snapshot the
\* accessor's value when it has one, else the attribute of that name; on any
\* other object the attribute of that name.
ExpectedHop(obj, field) ==
    IF /\ obj.t = "IncomeStatementData"
       /\ field \in DOMAIN MetricField
       /\ obj[MetricField[field]].t # "NoneType"
    THEN [found |-> TRUE, val |-> obj[MetricField[field]]]
    ELSE IF obj.t \in ObjectTypes /\ field \in DOMAIN obj \ {"t"}
    THEN [found |-> TRUE, val |-> obj[field]]
    ELSE [found |-> FALSE, val |-> PNone]

RECURSIVE ExpectedWalk(_, _)
ExpectedWalk(obj, path) ==
    IF path = <<>> THEN [found |-> TRUE, val |-> obj]
    ELSE LET h == ExpectedHop(obj, Head(path))
         IN  IF h.found THEN ExpectedWalk(h.val, Tail(path)) ELSE h

\* The output of step id that the step at position k sees: that of the last
\* earlier step with this id that succeeded.
OutputBefore(r, k, id) ==
    LET js == {j \in 1..(k - 1) : plan[r][j].step_id = id /\ results[r][j].success}
    IN  results[r][CHOOSE j \in js : \A i \in js : i <= j].output

\* What the reference ref of the step at position k is documented to
\* resolve to.
Expected(r, k, ref) ==
    ExpectedWalk(OutputBefore(r, k, RefId(ref)), SubSeq(ref, 3, Len(ref)))

Resolvable(r, k, name) ==
    /\ name \in ArgNames(plan[r][k])
    /\ WellFormedRef(ArgOf(plan[r][k], name))
    /\ SucceededBefore(r, k, RefId(ArgOf(plan[r][k], name)))

\* C7: a reference to a step that succeeded resolves to the value at the end
\* of its field path, walked left to right with the metric accessor first on
\* a snapshot and attribute lookup otherwise: the resolver returns that
\* value for every reference of the step about to run, a succeeded margin
\* or growth step echoes it as its operand, and a fetch is called with it as
\* its fiscal year.
C7_ReferencePathResolution ==
    \A r \in Runs :
        /\ (pc[r] = "running" /\ idx[r] <= Len(plan[r])) =>
              \A name \in ArgNames(Step(r)) :
                  Resolvable(r, idx[r], name) =>
                      LET ref == ArgOf(Step(r), name)
                          e == Expected(r, idx[r], ref)
                          d == _dereference(ref, step_outputs[r])
                      IN  /\ d.ok = e.found
                          /\ e.found => d.val = e.val
        /\ \A k \in 1..Len(results[r]) :
              /\ \A name \in {"numerator", "revenue", "current_value", "previous_value"} :
                    (Resolvable(r, k, name) /\ results[r][k].success) =>
                        LET e == Expected(r, k, ArgOf(plan[r][k], name))
                        IN  /\ e.found
                            /\ IsNumber(e.val)
                            /\ results[r][k].output[name] = PFloat(MicroOf(e.val))
              /\ (Resolvable(r, k, "fiscal_year") /\ AnswerAt(r, k) # "") =>
                    LET e == Expected(r, k, ArgOf(plan[r][k], "fiscal_year"))
                    IN  /\ e.found
                        /\ e.val.t = "int" =>
                              \E c \in 1..Len(edgar_calls[r]) :
                                  /\ edgar_calls[r][c].step = k
                                  /\ edgar_calls[r][c].call.fiscal_year = e.val.n

\* A step whose argument is "$step:1:revenue" succeeded on the revenue of
\* the output of step 1, and it is the last step of a finished run.
C7_Witness ==
    /\ pc[1] = "done"
    /\ \E j, k \in 1..Len(results[1]) :
          /\ j < k
          /\ plan[1][j].step_id = 1
          /\ results[1][j].success
          /\ "current_value" \in ArgNames(plan[1][k])
          /\ ArgOf(plan[1][k], "current_value") = <<"$step", "1", "revenue">>
          /\ results[1][k].success
          /\ results[1][k].output.current_value = results[1][j].output.revenue

\* A reference of the step at position k that cannot be resolved: it has
\* fewer than three segments, its id is not an integer or not the id of an
\* earlier succeeded step, or its field path does not resolve.
Unresolvable(r, k, v) ==
    /\ IsReference(v)
    /\ ~(/\ WellFormedRef(v)
         /\ SucceededBefore(r, k, RefId(v))
         /\ Expected(r, k, v).found)

\* The last segment-by-segment prefix of a field path that resolves is
\* followed by the field that does not.
RECURSIVE UnknownField(_, _)
UnknownField(obj, path) ==
    LET h == ExpectedHop(obj, Head(path))
    IN  IF h.found THEN UnknownField(h.val, Tail(path)) ELSE Head(path)

\* C8 as stated: a step with a reference that cannot be resolved is recorded
\* failed by a ComputationError without its handler being invoked; when its
\* first reference has fewer than three segments the error is the
\* invalid-step-reference error, and when its first reference names an
\* unknown field of a succeeded step the error names that field.
C8_AsStated ==
    \A r \in Runs : \A k \in 1..Len(results[r]) :
        (\E name \in ArgNames(plan[r][k]) : Unresolvable(r, k, ArgOf(plan[r][k], name))) =>
            LET first == FirstReference(plan[r][k])
            IN  /\ attempts[r][k].exc = "ComputationError"
                /\ ~results[r][k].success
                /\ NotInvoked(r, k)
                /\ Len(first) < 3 => results[r][k].error[1] = "Invalid step reference"
                /\ (/\ WellFormedRef(first)
                    /\ SucceededBefore(r, k, RefId(first))
                    /\ ~Expected(r, k, first).found) =>
                       results[r][k].error[2] =
                           UnknownField(OutputBefore(r, k, RefId(first)),
                                        SubSeq(first, 3, Len(first)))

\* C8 (what holds): a step with a reference that cannot be resolved is
\* recorded failed without its handler being invoked, by a ComputationError
\* with the errors of the two named cases, or by the ValueError of int()
\* when a reference of three or more segments has an id that is not an
\* integer.
C8_ResolutionFailureFailsStep ==
    \A r \in Runs : \A k \in 1..Len(results[r]) :
        (\E name \in ArgNames(plan[r][k]) : Unresolvable(r, k, ArgOf(plan[r][k], name))) =>
            LET first == FirstReference(plan[r][k])
            IN  /\ attempts[r][k].exc \in {"ComputationError", "ValueError"}
                /\ attempts[r][k].exc = "ValueError" =>
                      \E name \in ArgNames(plan[r][k]) :
                          LET v == ArgOf(plan[r][k], name)
                          IN  IsReference(v) /\ Len(v) >= 3 /\ v[2] \notin IntLiterals
                /\ ~results[r][k].success
                /\ NotInvoked(r, k)
                /\ Len(first) < 3 => results[r][k].error[1] = "Invalid step reference"
                /\ (/\ WellFormedRef(first)
                    /\ SucceededBefore(r, k, RefId(first))
                    /\ ~Expected(r, k, first).found) =>
                       results[r][k].error[2] =
                           UnknownField(OutputBefore(r, k, RefId(first)),
                                        SubSeq(first, 3, Len(first)))

\* A finished run recorded a step failed on the unknown field "bogus" of a
\* succeeded step.
C8_Witness ==
    /\ pc[1] = "done"
    /\ \E k \in 1..Len(results[1]) :
          /\ \E name \in ArgNames(plan[1][k]) : IsReference(ArgOf(plan[1][k], name))
          /\ WellFormedRef(FirstReference(plan[1][k]))
          /\ SucceededBefore(1, k, RefId(FirstReference(plan[1][k])))
          /\ ~Expected(1, k, FirstReference(plan[1][k])).found
          /\ results[1][k].error[2] = "bogus"
          /\ attempts[1][k].handler = "none"

\* The four literal strings documented to mean "no value".
NoValueLiterals == {<<"">>, <<"null">>, <<"none">>, <<"None">>}

IsFetch(step) == step.tool = "get_income_statement"

\* The calls the data source got for the step at position k.
CallsFor(r, k) ==
    {edgar_calls[r][c].call : c \in {i \in 1..Len(edgar_calls[r]) : edgar_calls[r][i].step = k}}

HasArg(step, name) == name \in ArgNames(step)

\* The argument is given as a literal text (not a reference).
Literal(step, name) == HasArg(step, name) /\ ~IsReference(ArgOf(step, name))

NoQuarter(step) ==
    \/ ~HasArg(step, "quarter")
    \/ Literal(step, "quarter") /\ ArgOf(step, "quarter") \in NoValueLiterals

\* The integer a call must carry for an argument given as the integer
\* literal text or as a reference that resolves to an integer.
CarriesArg(r, k, name, passed) ==
    LET v == ArgOf(plan[r][k], name)
    IN  IF IsReference(v)
        THEN /\ Resolvable(r, k, name)
             /\ Expected(r, k, v).found
             /\ Expected(r, k, v).val.t = "int" => passed = Expected(r, k, v).val.n
        ELSE /\ Len(v) = 1
             /\ v[1] \in IntLiterals
             /\ passed = IntOfLiteral(v[1])

\* C9: a get_income_statement call carries quarter = None exactly when the
\* step's quarter argument is absent or one of the four no-value literals,
\* and the integer value of the argument otherwise; it carries fiscal_year
\* as the integer value of the argument; a step with a literal ticker, an
\* integer fiscal_year and no quarter does call the data source; a step
\* whose fiscal_year is one of the four literals is recorded failed and the
\* data source is not called for it.
C9_QuarterAndFiscalYearCoercion ==
    \A r \in Runs : \A k \in 1..Len(results[r]) :
        IsFetch(plan[r][k]) =>
            /\ \A call \in CallsFor(r, k) :
                  /\ (call.quarter = PNone) <=> NoQuarter(plan[r][k])
                  /\ ~NoQuarter(plan[r][k]) =>
                        /\ call.quarter.t = "int"
                        /\ CarriesArg(r, k, "quarter", call.quarter.n)
                  /\ call.fiscal_year \in Int
                  /\ CarriesArg(r, k, "fiscal_year", call.fiscal_year)
            /\ (/\ Literal(plan[r][k], "ticker")
                /\ Literal(plan[r][k], "fiscal_year")
                /\ Len(ArgOf(plan[r][k], "fiscal_year")) = 1
                /\ ArgOf(plan[r][k], "fiscal_year")[1] \in IntLiterals
                /\ NoQuarter(plan[r][k])) => CallsFor(r, k) # {}
            /\ (/\ Literal(plan[r][k], "fiscal_year")
                /\ ArgOf(plan[r][k], "fiscal_year") \in NoValueLiterals) =>
                  /\ ~results[r][k].success
                  /\ CallsFor(r, k) = {}

\* A finished run called the data source with quarter = None for a step
\* whose quarter is the text "None", and the call carried the fiscal year
\* 2024 of the step.
C9_Witness ==
    /\ pc[1] = "done"
    /\ \E k \in 1..Len(results[1]) :
          /\ IsFetch(plan[1][k])
          /\ HasArg(plan[1][k], "quarter")
          /\ ArgOf(plan[1][k], "quarter") = <<"None">>
          /\ \E call \in CallsFor(1, k) : call.quarter = PNone /\ call.fiscal_year = 2024

\* No step has two attempts, every recorded step has one, a finished run
\* has attempted every step; the data source is called at most once per
\* step and only for get_income_statement steps.
AttemptedOnce ==
    \A r \in Runs :
        /\ \A a, b \in 1..Len(attempts[r]) :
              attempts[r][a].step = attempts[r][b].step => a = b
        /\ \A k \in 1..Len(results[r]) :
              \E a \in 1..Len(attempts[r]) : attempts[r][a].step = k
        /\ pc[r] = "done" =>
              {attempts[r][a].step : a \in 1..Len(attempts[r])} = 1..Len(plan[r])
        /\ \A c, d \in 1..Len(edgar_calls[r]) :
              edgar_calls[r][c].step = edgar_calls[r][d].step => c = d
        /\ \A c \in 1..Len(edgar_calls[r]) :
              /\ plan[r][edgar_calls[r][c].step].tool = "get_income_statement"
              /\ plan[r][edgar_calls[r][c].step].tool \notin
                    {"compute_yoy_growth", "compute_qoq_growth", "compute_margin",
                     "aggregate_quarters"}

\* A step of the program leaves every recorded StepResult, every ended
\* attempt and every answered call as it is.
RecordsAreStable ==
    \A r \in Runs :
        /\ Len(results'[r]) >= Len(results[r])
        /\ \A k \in 1..Len(results[r]) : results'[r][k] = results[r][k]
        /\ Len(attempts'[r]) >= Len(attempts[r])
        /\ \A a \in 1..Len(attempts[r]) :
              attempts[r][a].outcome # "awaiting" => attempts'[r][a] = attempts[r][a]
        /\ Len(edgar_calls'[r]) >= Len(edgar_calls[r])
        /\ \A c \in 1..Len(edgar_calls[r]) : edgar_calls'[r][c] = edgar_calls[r][c]

\* C10: during one execute call each plan step is attempted exactly once (a
\* failed step is never attempted again), the data source is called at most
\* once per data-fetch step and never for a compute step, and a StepResult
\* never changes once it is recorded.
C10_EachStepAttemptedOnce == []AttemptedOnce /\ [][RecordsAreStable]_vars

\* A finished run of three steps in which a step failed, a fetch was
\* answered and a compute step ran.
C10_Witness ==
    /\ pc[1] = "done"
    /\ Len(plan[1]) = 3
    /\ Len(attempts[1]) = 3
    /\ \E k \in 1..3 : ~results[1][k].success
    /\ Len(edgar_calls[1]) >= 1
    /\ \E a \in 1..3 : attempts[1][a].handler = "compute"

\* ------------------------------------------------------- verifier properties

\* The multiplier a scale word stands for.
WordMultiplier(scale) ==
    CASE scale = "thousand" -> Dec(1, 3)
      [] scale = "million" -> Dec(1, 6)
      [] scale = "billion" -> Dec(1, 9)
      [] scale = "trillion" -> Dec(1, 12)
      [] OTHER -> Dec(1, 0)

\* The number an item of a narration states.
WrittenValue(item) == DecMul(item.base, WordMultiplier(item.scale))

\* The items of a narration that state a number.
NumbersOf(written) == SelectSeq(written, LAMBDA item : item.kind # "word")

\* v is within the relative tolerance of the truth entry t; a zero entry
\* is approached only by zero.
WithinTolerance(v, t, tolerance) ==
    IF t = DecZero THEN v = DecZero
    ELSE DecLeq(DecAbs(DecSub(v, t)), DecMul(tolerance, DecAbs(t)))

Verified(v, truth_set, tolerance) ==
    \E t \in truth_set : WithinTolerance(v, t, tolerance)

\* Every number the narration of the call states is within tolerance of a
\* truth entry.
AllWrittenVerified ==
    \A i \in 1..Len(libcall.written) :
        libcall.written[i].kind # "word" =>
            Verified(WrittenValue(libcall.written[i]), libcall.truth_set, libcall.tolerance)

\* C11 as stated: verify_summary returns an empty list whenever every
\* number written in the text (currency amount with or without scale word,
\* plain number, signed percentage) is within the relative tolerance of
\* some truth-set entry.
C11_AsStated ==
    (Returned("verify_summary") /\ AllWrittenVerified) => libret[1].val = <<>>

\* C11, as far as the code goes: with a tolerance below 1, verify_summary
\* returns an empty list whenever every number written in the text is
\* within the relative tolerance of some truth-set entry and, for a
\* percentage, so is the number without its sign.
C11_VerifiedNarrationPasses ==
    (/\ Returned("verify_summary")
     /\ ~DecLeq(Dec(1, 0), libcall.tolerance)
     /\ AllWrittenVerified
     /\ \A i \in 1..Len(libcall.written) :
           libcall.written[i].kind = "percent" =>
               Verified(DecAbs(libcall.written[i].base), libcall.truth_set,
                        libcall.tolerance))
        => libret[1].val = <<>>

\* verify_summary returned an empty list for a narration of two numbers,
\* one of them close to a truth entry without being equal to it.
C11_Witness ==
    /\ Returned("verify_summary")
    /\ libcall.tolerance = Dec(1, -3)
    /\ Len(NumbersOf(libcall.written)) = 2
    /\ AllWrittenVerified
    /\ \E i \in 1..Len(libcall.written) :
          /\ libcall.written[i].kind = "amount"
          /\ WrittenValue(libcall.written[i]) \notin libcall.truth_set
    /\ libret[1].val = <<>>

\* The extracted numbers of the call's text that no truth entry verifies,
\* in extraction order.
UnverifiedExtracted ==
    SelectSeq(extract_numbers(libcall.summary),
              LAMBDA v : ~Verified(v, libcall.truth_set, libcall.tolerance))

C13_AsStated ==
    Returned("_matches_any") =>
        (libret[1].val <=> Verified(libcall.value, libcall.truth_set, libcall.tolerance))

\* C13, as far as the code goes: for a tolerance below 1 the match test
\* agrees with the stated rule, and for any tolerance a truth set holding
\* only zero matches v = 0 and nothing else.
C13_MatchTestAgreesBelowOne ==
    Returned("_matches_any") =>
        /\ ~DecLeq(Dec(1, 0), libcall.tolerance) =>
              (libret[1].val <=>
                  Verified(libcall.value, libcall.truth_set, libcall.tolerance))
        /\ libcall.truth_set = {DecZero} => (libret[1].val <=> libcall.value = DecZero)

\* The match test accepted a value that differs from the truth entry by
\* exactly the default tolerance.
C13_Witness ==
    /\ Returned("_matches_any")
    /\ libcall.tolerance = Dec(1, -3)
    /\ libcall.value = Dec(1001, -1)
    /\ libcall.truth_set = {Dec(100, 0)}
    /\ libret[1].val

\* C14: verify_summary returns an empty list whenever the text is empty or
\* the truth set is empty, whatever the other argument contains.
C14_EmptyInputsVerifyNothing ==
    (/\ Returned("verify_summary")
     /\ libcall.summary = <<>> \/ libcall.truth_set = {})
        => libret[1].val = <<>>

\* verify_summary returned an empty list for a text with two numbers and an
\* empty truth set.
C14_Witness ==
    /\ Returned("verify_summary")
    /\ libcall.truth_set = {}
    /\ Len(extract_numbers(libcall.summary)) >= 2
    /\ libret[1].val = <<>>

\* The number a dict holds under a key, or nothing when the key is absent
\* or holds None.
NumberUnder(data, key) ==
    IF key \in DOMAIN data /\ data[key] # PNone
    THEN {IF data[key].t = "int" THEN Dec(data[key].n, 0) ELSE Dec(data[key].n, -6)}
    ELSE {}

\* The truth set the documentation describes for the call's arguments.
DocumentedTruthSet ==
    LET raw == libcall.raw_data
        comps == libcall.computations
    IN  UNION {NumberUnder(raw[i], key) :
                  i \in 1..Len(raw),
                  key \in {"revenue", "cost_of_revenue", "gross_profit",
                           "operating_income", "net_income", "eps_basic", "eps_diluted"}}
        \cup
        UNION {NumberUnder(comps[i], key) :
                  i \in 1..Len(comps),
                  key \in {"growth_rate", "growth_percentage", "current_value",
                           "previous_value", "margin_rate", "margin_percentage",
                           "numerator", "revenue", "result"}}
        \cup
        UNION {IF "values" \in DOMAIN comps[i]
               THEN UNION {NumberUnder(comps[i]["values"].items, j) :
                              j \in 1..Len(comps[i]["values"].items)}
               ELSE {} : i \in 1..Len(comps)}

\* C15: build_truth_set returns exactly the set of non-None values found
\* under the listed raw-data field names and computation field names, plus
\* every element of a computation's values list; None values are skipped
\* and no other field contributes a value.
C15_TruthSetIsListedFields ==
    libcall.fn = "build_truth_set" /\ libret # <<>> =>
        /\ libret[1].ok
        /\ libret[1].val = DocumentedTruthSet

\* build_truth_set was called with a snapshot that lacks figures and has a
\* fiscal year, and with a computation that has a values list.
C15_Witness ==
    /\ Returned("build_truth_set")
    /\ \E i \in 1..Len(libcall.raw_data) :
          /\ libcall.raw_data[i].revenue = PNone
          /\ libcall.raw_data[i].metadata.fiscal_year = PInt(2024)
    /\ \E i \in 1..Len(libcall.computations) :
          "values" \in DOMAIN libcall.computations[i]
    /\ Dec(2024, 0) \notin libret[1].val
    /\ Cardinality(libret[1].val) >= 5

\* C16: for every number in the text that is followed by a scale word
\* thousand, million, billion or trillion in any letter case,
\* extract_numbers returns the base value, with thousands separators
\* removed, multiplied by 1e3, 1e6, 1e9 or 1e12 respectively; a number
\* with no scale word is returned unscaled; a text containing no digits
\* yields an empty list.  (The k-th number written is the k-th value
\* returned.)
C16_ScaleWordsMultiply ==
    Returned("extract_numbers") =>
        LET numbers == NumbersOf(libcall.written)
            returned == libret[1].val
        IN  /\ Len(returned) >= Len(numbers)
            /\ \A k \in 1..Len(numbers) :
                  numbers[k].kind = "amount" =>
                      returned[k] =
                          CASE numbers[k].scale = "thousand" ->
                                  DecMul(numbers[k].base, Dec(1000, 0))
                            [] numbers[k].scale = "million" ->
                                  DecMul(numbers[k].base, Dec(1000000, 0))
                            [] numbers[k].scale = "billion" ->
                                  DecMul(numbers[k].base, Dec(1000000000, 0))
                            [] numbers[k].scale = "trillion" ->
                                  DecMul(numbers[k].base, Dec(1, 12))
                            [] OTHER -> numbers[k].base
            /\ (\A i \in 1..Len(libcall.text) : libcall.text[i] \notin Digits)
                  => returned = <<>>

\* extract_numbers returned 2000 and 1234567 for "2 THOUSAND $1,234,567".
C16_Witness ==
    /\ Returned("extract_numbers")
    /\ Len(libcall.written) = 2
    /\ libcall.written[1].scale = "thousand"
    /\ "THOUSAND" \in {libcall.text[i] : i \in 1..Len(libcall.text)}
    /\ "," \in {libcall.text[i] : i \in 1..Len(libcall.text)}
    /\ libret[1].val = <<Dec(2000, 0), Dec(1234567, 0)>>

\* ------------------------------------------------------- compute properties

\* q is a nearest integer to scale * a / b (b # 0): q * b is within half
\* of b of scale * a.  The fraction is reduced first.
IsNearest(q, scale, a, b) ==
    LET g == GCD(Abs(a), Abs(b))
        n == IF b < 0 THEN -(a \div g) ELSE a \div g
        d == Abs(b) \div g
    IN  2 * Abs(q * d - scale * n) <= d

\* A number argument that equals 0.
IsZeroNumber(v) == v.t \in {"int", "float"} /\ v.n = 0

\* The call raised ComputationError.
RaisedComputationError ==
    /\ libret # <<>>
    /\ ~libret[1].ok
    /\ libret[1].exc = "ComputationError"

\* The raised message names the str value.
MessageNames(value) ==
    \E i \in 1..Len(libret[1].msg) : libret[1].msg[i] = value.parts[1]

\* The float field holds the number the caller gave.
Echoes(field, given) ==
    /\ field.t = "float"
    /\ field.n = (IF given.t = "int" THEN given.n * 1000000 ELSE given.n)

\* C17: compute_growth raises ComputationError exactly when previous == 0,
\* with a message naming the metric and the previous period; for every
\* nonzero previous (both values being numbers) it returns growth_rate =
\* (current - previous) / previous rounded to 6 decimal places and
\* growth_percentage = 100 * (current - previous) / previous rounded to 2
\* decimal places, with the input values and period labels echoed
\* unchanged.
C17_GrowthContract ==
    libcall.fn = "compute_growth" /\ libret # <<>> =>
        LET args == libcall.args
            current == MicroOf(args.current_value)
            previous == MicroOf(args.previous_value)
            out == libret[1].val
        IN  /\ RaisedComputationError <=> IsZeroNumber(args.previous_value)
            /\ RaisedComputationError =>
                  MessageNames(args.metric_name) /\ MessageNames(args.previous_period)
            /\ (/\ IsNumber(args.current_value)
                /\ IsNumber(args.previous_value)
                /\ ~IsZeroNumber(args.previous_value))
                  => /\ libret[1].ok
                     /\ IsNearest(out.growth_rate.n, 1000000, current - previous, previous)
                     /\ out.growth_percentage.n % 10000 = 0
                     /\ IsNearest(out.growth_percentage.n \div 10000, 10000,
                                  current - previous, previous)
                     /\ Echoes(out.current_value, args.current_value)
                     /\ Echoes(out.previous_value, args.previous_value)
                     /\ out.current_period = args.current_period
                     /\ out.previous_period = args.previous_period
                     /\ out.metric_name = args.metric_name

\* compute_growth returned a negative growth whose seventh decimal rounds
\* up (100 against 120: -0.166667 and -16.67).
C17_Witness ==
    /\ Returned("compute_growth")
    /\ libcall.args.current_value = PFloat(100 * Micro)
    /\ libcall.args.previous_value = PFloat(120 * Micro)
    /\ libret[1].val.growth_rate = PFloat(-166667)
    /\ libret[1].val.growth_percentage = PFloat(-16670000)

\* C18: compute_margin raises ComputationError exactly when revenue == 0,
\* with a message naming the metric and the period; for every nonzero
\* revenue (both values being numbers), negative numerators included, it
\* returns margin_rate = numerator / revenue rounded to 6 decimal places
\* and margin_percentage = 100 * numerator / revenue rounded to 2 decimal
\* places.
C18_MarginContract ==
    libcall.fn = "compute_margin" /\ libret # <<>> =>
        LET args == libcall.args
            numerator == MicroOf(args.numerator)
            revenue == MicroOf(args.revenue)
            out == libret[1].val
        IN  /\ RaisedComputationError <=> IsZeroNumber(args.revenue)
            /\ RaisedComputationError =>
                  MessageNames(args.metric_name) /\ MessageNames(args.period)
            /\ (/\ IsNumber(args.numerator)
                /\ IsNumber(args.revenue)
                /\ ~IsZeroNumber(args.revenue))
                  => /\ libret[1].ok
                     /\ IsNearest(out.margin_rate.n, 1000000, numerator, revenue)
                     /\ out.margin_percentage.n % 10000 = 0
                     /\ IsNearest(out.margin_percentage.n \div 10000, 10000,
                                  numerator, revenue)
                     /\ (numerator < 0) = (revenue < 0) => out.margin_rate.n >= 0
                     /\ (numerator < 0) # (revenue < 0) => out.margin_rate.n <= 0

\* compute_margin returned a negative margin for a negative numerator
\* (-30 over 120: -0.25 and -25.0).
C18_Witness ==
    /\ Returned("compute_margin")
    /\ libcall.args.numerator = PFloat(-30 * Micro)
    /\ libcall.args.revenue = PFloat(120 * Micro)
    /\ libret[1].val.margin_rate = PFloat(-250000)
    /\ libret[1].val.margin_percentage = PFloat(-25 * Micro)

RECURSIVE TotalOf(_)
\* The sum of the values of the items, in millionths.
TotalOf(items) ==
    IF items = <<>> THEN 0
    ELSE (IF items[1].value.t = "int" THEN items[1].value.n * 1000000
          ELSE items[1].value.n) + TotalOf(Tail(items))

\* C19: aggregate_quarters raises ComputationError exactly when the item
\* list is empty or the method is neither "sum" nor "average"; otherwise
\* the result is the sum of the values (sum) or that sum divided by the
\* number of items (average), rounded to 2 decimal places, and the
\* returned values and periods lists have the same length and order as
\* the input items.
C19_AggregationContract ==
    libcall.fn = "aggregate_quarters" /\ libret # <<>> =>
        LET args == libcall.args
            items == args.quarter_data.items
            method == IF "method" \in DOMAIN args THEN args.method.parts[1] ELSE "sum"
            out == libret[1].val
        IN  /\ RaisedComputationError <=> (items = <<>> \/ method \notin {"sum", "average"})
            /\ ~RaisedComputationError =>
                  /\ libret[1].ok
                  /\ out.result.n % 10000 = 0
                  /\ IsNearest(out.result.n \div 10000, 100, TotalOf(items),
                               1000000 * (IF method = "sum" THEN 1 ELSE Len(items)))
                  /\ Len(out.values.items) = Len(items)
                  /\ Len(out.periods.items) = Len(items)
                  /\ \A i \in 1..Len(items) :
                        /\ Echoes(out.values.items[i], items[i].value)
                        /\ out.periods.items[i] = items[i].period

\* aggregate_quarters averaged two different quarters (100 and 0.125:
\* 50.06) and kept their order.
C19_Witness ==
    /\ Returned("aggregate_quarters")
    /\ "method" \in DOMAIN libcall.args
    /\ libcall.args.method = PStr(<<"average">>)
    /\ Len(libcall.args.quarter_data.items) = 2
    /\ libret[1].val.result = PFloat(50060000)
    /\ libret[1].val.periods = PList(<<PStr(<<"Q1 FY2024">>), PStr(<<"Q2 FY2024">>)>>)

\* ------------------------------------------------------- response properties

RECURSIVE PositionsWhere(_, _, _)
\* The positions k..Len(trace) of the trace whose step succeeded with a
\* tool among tools, in increasing order.
PositionsWhere(trace, tools, k) ==
    IF k > Len(trace) THEN <<>>
    ELSE (IF trace[k].success /\ trace[k].tool \in tools THEN <<k>> ELSE <<>>)
            \o PositionsWhere(trace, tools, k + 1)

RECURSIVE OutputsAfter(_, _)
\* The step_id -> output map left by a trace: the outputs of its succeeded
\* steps stored in trace order, nothing for its failed steps.
OutputsAfter(trace, k) ==
    IF k = 0 THEN <<>>
    ELSE IF trace[k].success
         THEN Store(OutputsAfter(trace, k - 1), trace[k].step_id, trace[k].output)
         ELSE OutputsAfter(trace, k - 1)

\* The succeeded steps of the trace of run r, by position.
Succeeded(r) == {k \in 1..Len(results[r]) : results[r][k].success}

\* C27 (as stated): at every point of a run the output map holds only
\* outputs of succeeded steps already recorded, and every succeeded step
\* recorded so far has an entry equal to the output in its StepResult.
C27_AsStated ==
    \A r \in Runs :
        /\ \A id \in DOMAIN step_outputs[r] :
              \E k \in Succeeded(r) :
                  /\ results[r][k].step_id = id
                  /\ results[r][k].output = step_outputs[r][id]
        /\ \A k \in Succeeded(r) :
              /\ results[r][k].step_id \in DOMAIN step_outputs[r]
              /\ step_outputs[r][results[r][k].step_id] = results[r][k].output

\* C27: at every point of a run the output map is exactly what the
\* succeeded steps recorded so far stored, in order: a failed step adds and
\* changes nothing, and the entry of a succeeded step equals the output in
\* its StepResult until a later succeeded step with the same step_id
\* replaces it.
C27_OutputMapFollowsTrace ==
    \A r \in Runs :
        /\ step_outputs[r] = OutputsAfter(results[r], Len(results[r]))
        /\ \A k \in Succeeded(r) :
              (\A j \in Succeeded(r) :
                    j > k => results[r][j].step_id # results[r][k].step_id)
                 => /\ results[r][k].step_id \in DOMAIN step_outputs[r]
                    /\ step_outputs[r][results[r][k].step_id] = results[r][k].output

\* A run over distinct step ids that ended with a succeeded step, a failed
\* step and a succeeded step: two entries, none for the failed step.
C27_Witness ==
    /\ pc[1] = "done"
    /\ Len(results[1]) = 3
    /\ results[1][1].success
    /\ ~results[1][2].success
    /\ results[1][3].success
    /\ DOMAIN step_outputs[1] = {0, 2}
    /\ step_outputs[1][0] = results[1][1].output
    /\ step_outputs[1][2] = results[1][3].output

\* ------------------------------------------------------- compute step properties

GrowthAndMarginTools == {"compute_yoy_growth", "compute_qoq_growth", "compute_margin"}

\* The operands of the growth and margin functions.
NumericArgNames == {"numerator", "revenue", "current_value", "previous_value"}

\* The step of run r recorded last, and the output map it was run with.
LastStep(r) == plan[r][Len(results[r])]

OutputsBeforeLast(r) == OutputsAfter(results[r], Len(results[r]) - 1)

\* The arguments of a step that are references resolving to None.
MissingInputs(step, prior_outputs) ==
    LET d == ArgsDict(step.args)
    IN  {name \in DOMAIN d :
            /\ IsReference(d[name])
            /\ ResolveValue(d[name], prior_outputs) = Return(PNone)}

\* C28: a growth or margin step one of whose arguments is a reference that
\* resolves to a field without a value (None) is recorded as failed.
C28_MissingInputFailsStep ==
    \A r \in Runs :
        (/\ results[r] # <<>>
         /\ LastStep(r).tool \in GrowthAndMarginTools
         /\ MissingInputs(LastStep(r), OutputsBeforeLast(r)) # {})
            => ~results[r][Len(results[r])].success

\* The sparse snapshot of step 0 has neither cost_of_revenue nor revenue:
\* the margin of one over the other is recorded failed with the TypeError
\* of the division.
C28_Witness ==
    /\ pc[1] = "done"
    /\ Len(results[1]) = 2
    /\ results[1][1].success
    /\ results[1][1].output.cost_of_revenue = PNone
    /\ plan[1][2].tool = "compute_margin"
    /\ MissingInputs(plan[1][2], step_outputs[1]) = {"numerator", "revenue"}
    /\ ~results[1][2].success
    /\ results[1][2].error[1] = "unsupported operand type(s)"

\* The number a literal argument text spells (int(text)), as a list: empty
\* when the text is a reference or spells no number.
LiteralNumber(parts) ==
    IF IsReference(parts) \/ ~PyInt(PStr(parts)).ok THEN <<>>
    ELSE <<PFloat(PyInt(PStr(parts)).val * Micro)>>

\* The operands of a step given as number literals.
LiteralOperands(step) ==
    LET d == ArgsDict(step.args)
    IN  {name \in DOMAIN d \cap NumericArgNames : LiteralNumber(d[name]) # <<>>}

\* The resolved arguments of a step with each literal operand replaced by the
\* number it spells: what references to those numbers would supply.
ArgsThroughReferences(step, prior_outputs) ==
    LET d == ArgsDict(step.args)
        resolved == _resolve_args(step.args, prior_outputs).val
    IN  [name \in DOMAIN d |->
            IF name \in LiteralOperands(step) THEN LiteralNumber(d[name])[1]
            ELSE resolved[name]]

\* C29 (as stated): a growth or margin step with operands given as number
\* literals has the result the compute function gives for those numbers.
C29_AsStated ==
    \A r \in Runs :
        (/\ results[r] # <<>>
         /\ LastStep(r).tool \in GrowthAndMarginTools
         /\ LiteralOperands(LastStep(r)) # {}
         /\ _resolve_args(LastStep(r).args, OutputsBeforeLast(r)).ok)
            => LET expected == _execute_compute_step(
                                  LastStep(r).tool,
                                  ArgsThroughReferences(LastStep(r), OutputsBeforeLast(r)))
                   recorded == results[r][Len(results[r])]
               IN  /\ recorded.success = expected.ok
                   /\ expected.ok => recorded.output = expected.val

\* C29: a growth or margin step with an operand given as a number literal
\* is recorded as failed: the text is passed to the compute function as a
\* str, never as the number it spells.
C29_LiteralOperandFailsStep ==
    \A r \in Runs :
        (/\ results[r] # <<>>
         /\ LastStep(r).tool \in GrowthAndMarginTools
         /\ LiteralOperands(LastStep(r)) # {})
            => ~results[r][Len(results[r])].success

\* The margin of the literal "60" over the revenue 100 of step 0 is recorded
\* failed, while the compute function gives 60% for the numbers 60 and 100.
C29_Witness ==
    /\ pc[1] = "done"
    /\ Len(results[1]) = 2
    /\ results[1][1].success
    /\ results[1][1].output.revenue = PFloat(100 * Micro)
    /\ LiteralOperands(plan[1][2]) = {"numerator"}
    /\ ~results[1][2].success
    /\ results[1][2].error = <<"unsupported operand type(s)", "/", "str", "float">>
    /\ _execute_compute_step("compute_margin",
                             ArgsThroughReferences(plan[1][2], step_outputs[1])).ok
    /\ _execute_compute_step("compute_margin",
                             ArgsThroughReferences(plan[1][2], step_outputs[1]))
           .val.margin_percentage = PFloat(60 * Micro)

\* ------------------------------------------------------- plan properties

\* The step ids of a constructed plan, by position.
StepIds(steps) == [i \in 1..Len(steps) |-> steps[i].step_id]

\* C26 (as stated): every plan that was constructed has between 1 and 10
\* steps, step_ids that are non-negative integers, and no two steps with
\* the same step_id.
C26_AsStated ==
    Returned("ExecutionPlan") =>
        LET steps == libret[1].val
        IN  /\ Len(steps) \in 1..10
            /\ \A i \in 1..Len(steps) : steps[i].step_id \in Nat
            /\ \A i, j \in 1..Len(steps) : i # j => steps[i].step_id # steps[j].step_id

\* C26: every plan that was constructed has between 1 and 10 steps and
\* step_ids that are non-negative integers, the step_ids it was given; a
\* list of no steps, of 11 steps or with a negative or missing step_id is
\* rejected with a ValidationError.
C26_ConstructedPlanShape ==
    (libcall.fn = "ExecutionPlan" /\ libret # <<>>) =>
        LET ids == libcall.step_ids
            acceptable == /\ Len(ids) \in 1..10
                          /\ \A i \in 1..Len(ids) : ids[i].t = "int" /\ ids[i].n >= 0
        IN  IF acceptable
            THEN /\ libret[1].ok
                 /\ StepIds(libret[1].val) = [i \in 1..Len(ids) |-> ids[i].n]
            ELSE /\ ~libret[1].ok
                 /\ libret[1].exc = "ValidationError"

\* A plan of two steps that both have step_id 0 was constructed.
C26_Witness ==
    /\ Returned("ExecutionPlan")
    /\ StepIds(libret[1].val) = <<0, 0>>

\* ------------------------------------------------------- concurrency properties

\* The answers the data source gave run r, in order.
AnswersGiven(r) == [i \in 1..Len(edgar_calls[r]) |-> edgar_calls[r][i].answer]

RECURSIVE TraceAlone(_, _, _, _, _)
\* The trace of an execute call that runs on its own from step k of steps,
\* with the outputs and the trace it has so far, as far as the given
\* answers of the data source take it: up to the end of the plan, or up
\* to the first data step left without an answer.
TraceAlone(steps, k, outputs, answers, trace) ==
    IF k > Len(steps) THEN trace
    ELSE LET e == _execute_step(steps[k], outputs)
             res == IF e.await THEN EdgarResult(Head(answers), e.res.val) ELSE e.res
         IN  IF e.await /\ answers = <<>> THEN trace
             ELSE TraceAlone(steps, k + 1,
                     IF res.ok THEN Store(outputs, steps[k].step_id, res.val) ELSE outputs,
                     IF e.await THEN Tail(answers) ELSE answers,
                     Append(trace, IF res.ok THEN SuccessResult(steps[k], res.val)
                                   ELSE FailureResult(steps[k], res)))

\* C23: of execute calls that run concurrently on one executor, each has
\* at every point the trace it would have alone, given the answers it got
\* from the data source, and returns that trace; its output map holds the
\* outputs of its own succeeded steps only; a call whose plan is rejected
\* raises as it would alone.
C23_ConcurrentRunsAreIndependent ==
    \A r \in Runs :
        LET alone == TraceAlone(plan[r], 1, <<>>, AnswersGiven(r), <<>>)
        IN  /\ pc[r] \in {"running", "awaiting", "done"} =>
                  /\ Len(results[r]) <= Len(alone)
                  /\ results[r] = SubSeq(alone, 1, Len(results[r]))
                  /\ step_outputs[r] = OutputsAfter(results[r], Len(results[r]))
            /\ pc[r] = "done" => results[r] = alone
            /\ pc[r] = "raised" =>
                  /\ ~_validate_plan(plan[r]).ok
                  /\ results[r] = <<>>

\* The second call ran from start to end while the first awaited the data
\* source for its second step, its step 0 stored: the margin of the second
\* call over its own missing step 0 failed on the dangling reference.
C23_Witness ==
    /\ pc[1] = "awaiting"
    /\ idx[1] = 2
    /\ 0 \in DOMAIN step_outputs[1]
    /\ pc[2] = "done"
    /\ Len(plan[2]) = 1
    /\ plan[2][1].tool = "compute_margin"
    /\ ~results[2][1].success
    /\ step_outputs[2] = <<>>

\* ------------------------------------------------------- rate limit properties

\* The requests of a client that were admitted (not answered 429), by
\* position in the log.
AdmittedOf(ip) ==
    {i \in 1..Len(chat_log) : chat_log[i].ip = ip /\ chat_log[i].status # "429"}

\* The times of the admitted requests of a client, in order.
AdmittedTimes(ip) ==
    LET kept == SelectSeq(chat_log, LAMBDA q : q.ip = ip /\ q.status # "429")
    IN  [i \in 1..Len(kept) |-> kept[i].at]

\* Every window of 60 seconds (open at its start) that ends at a request
\* holds at most the allowed number of admitted requests of each client
\* (a window that ends between two requests holds no more than the one
\* that ends at the earlier), and the hits recorded for a client are the
\* times of its admitted requests that lie within 60 seconds before its
\* last admitted one, so none of a rejected request.
C24_WindowHolds ==
    \A ip \in Clients :
        /\ \A end \in {chat_log[i].at : i \in 1..Len(chat_log)} :
              Cardinality({i \in AdmittedOf(ip) :
                              /\ chat_log[i].at > end - WindowSeconds
                              /\ chat_log[i].at <= end}) <= MaxPerMinute
        /\ LET times == AdmittedTimes(ip)
           IN  IF times = <<>> THEN ip \notin DOMAIN _rate_state
               ELSE _rate_state[ip] =
                        SelectSeq(times, LAMBDA t : t > times[Len(times)] - WindowSeconds)

\* A step that answers a request with 429 changes no client's recorded
\* hits, and a request answered 429 stays so: it is never handed to the
\* conversation runner.
C24_RejectionStep ==
    /\ (/\ Len(chat_log') = Len(chat_log) + 1
        /\ chat_log'[Len(chat_log')].status = "429") => _rate_state' = _rate_state
    /\ \A i \in 1..Len(chat_log) :
          chat_log[i].status = "429" => chat_log'[i] = chat_log[i]

\* C24: for each client the requests admitted within any 60-second window
\* never exceed the per-minute limit, whatever the order in which requests
\* arrive and conversations return; a rejected request (429) records no
\* hit, leaves every client's recorded hits unchanged and never reaches the
\* conversation runner.
C24_RateLimitHolds == []C24_WindowHolds /\ [][C24_RejectionStep]_vars

\* A client was admitted twice and then rejected within one window, while
\* its first conversation was still running; its recorded hits are the two
\* admitted times.
C24_Witness ==
    /\ Len(chat_log) = 3
    /\ \A i \in 1..3 : chat_log[i].ip = "10.0.0.1"
    /\ chat_log[1].status = "running"
    /\ chat_log[2].status \in RunnerStatuses
    /\ chat_log[3].status = "429"
    /\ chat_log[3].at = 30
    /\ _rate_state["10.0.0.1"] = <<0, 30>>

\* ------------------------------------------------------- data client properties

\* The get_income_statement calls that returned or raised, of every run.
ClientCalls ==
    UNION {{edgar_calls[r][i] : i \in 1..Len(edgar_calls[r])} : r \in Runs}

\* The successful fetches.
Fetched == {c \in ClientCalls : c.source = "fetch" /\ c.answer \in {"full", "sparse"}}

\* Every entry of the cache is the snapshot of a successful fetch of its
\* key, with the time that fetch returned.
CacheHoldsFetchedOnly ==
    \A key \in DOMAIN _store :
        \E f \in Fetched :
            /\ CacheKey(f.call) = key
            /\ f.at = _store[key].ts
            /\ EdgarResult(f.answer, f.call).val = _store[key].value

\* Run r starts a fetch in this step, returns from one, or is cancelled.
StartsFetch(r) == pc[r] = "running" /\ pc'[r] = "awaiting"

EndsFetch(r) == pc[r] = "awaiting" /\ pc'[r] = "running"

IsCancelled(r) == pc[r] = "awaiting" /\ pc'[r] = "cancelled"

Fresh(store, key, t) == key \in DOMAIN store /\ t - store[key].ts <= CacheTtlSeconds

\* A step answered from the cache returns the snapshot of a successful
\* fetch of the same key that is not older than the TTL, and the cache
\* holds successful fetches only.
C30_CacheServesFetched ==
    /\ CacheHoldsFetchedOnly
    /\ \A r \in Runs : \A i \in 1..Len(edgar_calls[r]) :
          LET c == edgar_calls[r][i]
          IN  c.source = "cache" =>
                 /\ c.at - c.stored_at <= CacheTtlSeconds
                 /\ results[r][c.step].success
                 /\ \E f \in Fetched :
                       /\ CacheKey(f.call) = CacheKey(c.call)
                       /\ f.at = c.stored_at
                       /\ EdgarResult(f.answer, f.call).val = results[r][c.step].output

\* A fetch is started only when the cache has no entry of the key that is
\* within the TTL, and a stale entry is gone once it was looked up; a
\* fetch that returns a snapshot stores it with the time of the return,
\* one that raises leaves the cache as it is; an entry is removed or
\* replaced by nothing else.
C30_CacheStep ==
    /\ \A r \in Runs :
          StartsFetch(r) =>
              LET key == CacheKey(pending'[r][1])
              IN  /\ ~Fresh(_store, key, now)
                  /\ key \notin DOMAIN _store'
    /\ \A r \in Runs :
          EndsFetch(r) =>
              LET key == CacheKey(pending[r][1])
                  last == results'[r][Len(results'[r])]
              IN  IF last.success
                  THEN _store' = TTLCacheSet(_store, key, last.output, now)
                  ELSE _store' = _store
    /\ \A key \in DOMAIN _store :
          (key \notin DOMAIN _store' \/ _store'[key] # _store[key]) =>
              \E r \in Runs :
                  \/ StartsFetch(r) /\ CacheKey(pending'[r][1]) = key
                                    /\ ~Fresh(_store, key, now)
                  \/ EndsFetch(r) /\ CacheKey(pending[r][1]) = key

\* C30: the data client caches successful fetches only: once a fetch of a
\* key has returned a snapshot, a later call with that key within the TTL
\* is answered with that snapshot and starts no fetch; a fetch that fails
\* stores nothing, so the next call with its key fetches again; an entry
\* older than the TTL is never returned and is removed when looked up.
C30_CachesSuccessfulFetchesOnly == []C30_CacheServesFetched /\ [][C30_CacheStep]_vars

\* The second request was answered from the cache exactly one TTL after
\* the first request's fetch stored the snapshot.
C30_Witness ==
    /\ pc[1] = "done"
    /\ Len(edgar_calls[1]) = 1
    /\ edgar_calls[1][1].source = "fetch"
    /\ edgar_calls[1][1].answer = "full"
    /\ edgar_calls[1][1].at = 0
    /\ Len(edgar_calls[2]) = 1
    /\ edgar_calls[2][1].source = "cache"
    /\ edgar_calls[2][1].stored_at = 0
    /\ edgar_calls[2][1].at = CacheTtlSeconds
    /\ results[2][1].output = results[1][1].output

\* Nothing of a cancelled run is left where another request finds it: the
\* cache holds successful fetches only, and every other run has the trace
\* and the output map it has alone, given what the client returned to it.
C25_NothingLeftBehind ==
    /\ CacheHoldsFetchedOnly
    /\ \A r \in Runs :
          pc[r] \in {"running", "awaiting", "done"} =>
              LET alone == TraceAlone(plan[r], 1, <<>>, AnswersGiven(r), <<>>)
              IN  /\ Len(results[r]) <= Len(alone)
                  /\ results[r] = SubSeq(alone, 1, Len(results[r]))
                  /\ step_outputs[r] = OutputsAfter(results[r], Len(results[r]))
                  /\ pc[r] = "done" => results[r] = alone

\* The step that cancels a run changes neither the cache nor the trace or
\* the outputs of any run, and a cancelled run takes no further step: it
\* records nothing and returns no trace.
C25_CancelStep ==
    \A r \in Runs :
        /\ IsCancelled(r) =>
              /\ _store' = _store
              /\ results' = results
              /\ step_outputs' = step_outputs
        /\ pc[r] = "cancelled" =>
              /\ pc'[r] = "cancelled"
              /\ results'[r] = results[r]
              /\ edgar_calls'[r] = edgar_calls[r]

\* C25: when a request is cancelled while its data-source call is in
\* flight, the run is abandoned: it records and returns nothing more, no
\* step output or partial trace of it reaches another request, and the
\* shared cache gets no entry from the cancelled call.
C25_CancelledRunIsAbandoned == []C25_NothingLeftBehind /\ [][C25_CancelStep]_vars

\* The first request was cancelled during the fetch of its second step,
\* its first snapshot stored by then; the second request has since run to
\* its end, answered from the cache, and the cache holds that one entry.
C25_Witness ==
    /\ pc[1] = "cancelled"
    /\ Len(results[1]) = 1
    /\ idx[1] = 2
    /\ CacheKey(pending[1][1]) \notin DOMAIN _store
    /\ pc[2] = "done"
    /\ edgar_calls[2][1].source = "cache"
    /\ Cardinality(DOMAIN _store) = 1

\* ------------------------------------------------------- pipeline properties

\* The collaborators process has invoked, in order.
Invocations == [i \in 1..Len(calls) |-> calls[i].to]

PipelineOrder == <<"clarifier", "planner", "executor", "summarizer", "verifier">>

\* process has returned or raised.
Ended == proc \in {"returned", "raised"}

\* What collaborator i gave back.
Given(i) == calls[i].ret[1]

\* The response of the clarification path: the follow-up question of the
\* clarifier, and nothing but the clarifier was invoked.
ClarificationPath(response) ==
    /\ Invocations = <<"clarifier">>
    /\ Given(1).val.needs_clarification
    /\ response = ClarificationNeeded(Given(1).val.follow_up_question)
    /\ pc[1] = "idle"
    /\ plan[1] = <<>>
    /\ attempts[1] = <<>>
    /\ edgar_calls[1] = <<>>

\* The response of the full path: plan, execute, narrate and verify were
\* invoked once each in that order after the clarifier, execute ran the
\* planner's plan to its end, and the unverified numbers are the
\* verifier's result for the narration the response holds.
FullPath(response) ==
    /\ Invocations = PipelineOrder
    /\ ~Given(1).val.needs_clarification
    /\ calls[2].arg = Given(1).val.clarified_query
    /\ calls[3].arg = Given(2).val
    /\ plan[1] = Given(2).val
    /\ pc[1] = "done"
    /\ Given(3).val = results[1]
    /\ response.summary = Given(4).val
    /\ calls[5].arg = response.summary
    /\ response.guardrails.unverified_numbers = Given(5).val
    /\ Given(5).val =
          verify_summary(response.summary,
                         build_truth_set(build_raw_data(results[1]),
                                         build_computations(results[1])).val,
                         DefaultTolerance)
    /\ ~response.guardrails.llm_computed_math

\* The collaborators are invoked in the order of the pipeline, none twice;
\* process has an outcome exactly when it has ended, and a response it
\* returned came by one of the two paths.
C21_PathsHold ==
    /\ Len(calls) <= Len(PipelineOrder)
    /\ Invocations = SubSeq(PipelineOrder, 1, Len(calls))
    /\ Len(process_ret) <= 1
    /\ Ended <=> process_ret # <<>>
    /\ proc = "returned" <=> (process_ret # <<>> /\ process_ret[1].ok)
    /\ proc = "returned" =>
          LET response == process_ret[1].val
          IN  IF response.needs_clarification
              THEN ClarificationPath(response)
              ELSE FullPath(response)

\* Once process has ended nothing more is invoked and its outcome stays.
C21_EndIsFinal ==
    process_ret # <<>> => (process_ret' = process_ret /\ calls' = calls)

\* The agents gave process what it asked them for: none raised, and a
\* clarification that needs no follow-up has its clarified query.
AgentsAnswered ==
    /\ \A i \in 1..Len(calls) :
          (calls[i].to # "executor" /\ calls[i].ret # <<>>) => Given(i).ok
    /\ (calls # <<>> /\ calls[1].ret # <<>> /\ Given(1).ok) =>
          (Given(1).val.needs_clarification \/ Given(1).val.clarified_query # PNone)

\* C21 (as stated): with agents that answer, process ends in a response,
\* by one of the two paths.
C21_AsStated ==
    /\ C21_PathsHold
    /\ (Ended /\ AgentsAnswered) => proc = "returned"

\* C21: process ends, once; when it returns a response it does so by one
\* of two paths: with needs_clarification and the clarifier's follow-up
\* question, having invoked nothing but the clarifier, or after plan,
\* execute, narrate and verify in that order, each once, with
\* needs_clarification false and the verifier's result for that narration
\* as unverified_numbers. (It may also end by raising.)
C21_ProcessPaths == []C21_PathsHold /\ [][C21_EndIsFinal]_vars /\ <>Ended

\* process returned by the full path over a plan of two steps, and the
\* verifier found numbers of the narration that no snapshot has.
C21_Witness ==
    /\ proc = "returned"
    /\ ~process_ret[1].val.needs_clarification
    /\ Len(results[1]) = 2
    /\ process_ret[1].val.raw_data # <<>>
    /\ process_ret[1].val.guardrails.unverified_numbers # <<>>

\* The steps of the trace that succeeded.
SucceededSteps(step_results) == SelectSeq(step_results, LAMBDA result : result.success)

\* The errors a response holds in its raw data and computations.
ErrorsIn(response) ==
    ({Get(response.raw_data[i], "error") : i \in 1..Len(response.raw_data)}
     \cup {Get(response.computations[i], "error") : i \in 1..Len(response.computations)})
    \ {PNone}

\* C22 (as stated): process does not raise for a failure of the plan or of
\* a step, and the response carries the failure of every step recorded
\* failed in the trace.
C22_AsStated ==
    /\ ~(proc = "raised" /\ pc[1] = "raised")
    /\ proc = "returned" =>
          \A k \in 1..Len(results[1]) :
              ~results[1][k].success => results[1][k].error \in ErrorsIn(process_ret[1].val)

\* C22: a step that fails (data not found, an arithmetic error, a bad
\* reference) never makes process raise: process raises only what a
\* collaborator raised to it (execute for a plan with an unknown tool, an
\* agent) or for a clarification without a clarified query; and the
\* response is built from the succeeded steps alone, so a failed step
\* leaves nothing in it.
C22_FailuresInResponse ==
    /\ proc = "raised" =>
          \/ /\ ~Given(Len(calls)).ok
             /\ process_ret[1] = Given(Len(calls))
          \/ /\ process_ret[1].exc = "AssertionError"
             /\ Invocations = <<"clarifier">>
             /\ Given(1).val.clarified_query = PNone
    /\ pc[1] = "raised" <=> (plan[1] # <<>> /\ pc[1] # "start" /\ ~_validate_plan(plan[1]).ok)
    /\ (pc[1] = "done" /\ Ended) => (proc = "returned" \/ ~Given(4).ok)
    /\ (proc = "returned" /\ ~process_ret[1].val.needs_clarification) =>
          LET response == process_ret[1].val
              built == Response(SucceededSteps(results[1]))
          IN  /\ response.raw_data = built.raw_data
              /\ response.computations = built.computations
              /\ response.citations = built.citations
              /\ ErrorsIn(response) = {}

\* process returned a response for a trace whose only step failed (the
\* filing was not found): the response has no raw data.
C22_Witness ==
    /\ proc = "returned"
    /\ Len(results[1]) = 1
    /\ ~results[1][1].success
    /\ results[1][1].tool = "get_income_statement"
    /\ process_ret[1].val.raw_data = <<>>
    /\ process_ret[1].val.computations = <<>>

====
